---- MODULE Spec2Model ----
(***************************************************************************)
(* Model of scheduler.engine.solver.solve_schedule: the inputs it takes,   *)
(* the validation of timeset requests, the hard constraints it hands to    *)
(* the CP solver, and the solver's answer.  A "feasible solution" is any   *)
(* valuation of the decision variables work[e,d,t] and assign[e,d,t,r]     *)
(* that satisfies every constraint added with model.add(...).              *)
(*                                                                         *)
(* Units.  A slot is 30 minutes.  Hour quantities read from the CSV files  *)
(* are floats; the model holds them as integer numbers of eighths of an    *)
(* hour (12.5 h = 100), so that int(round(h * 2)), int(h * 2) and          *)
(* int(round(h * 4)) are computed as Python computes them.                 *)
(***************************************************************************)
EXTENDS Integers, Sequences, FiniteSets, TLC

(***************************************************************************)
(* Bounds of the model: the calendar grid is scaled down.                  *)
(***************************************************************************)
NumSlots == 6
NumDays == 2

\* config.py DAY_NAMES, T_SLOTS (scaled by the bounds above)
DAY_NAMES == <<"Mon", "Tue", "Wed", "Thu", "Fri">>
days == {DAY_NAMES[i] : i \in 1..NumDays}
T == 0..(NumSlots - 1)

FRONT_DESK_ROLE == "front_desk"
MIN_SLOTS == 4
MAX_SLOTS == 8
FAVORED_MIN_SLOTS == 4
FAVORED_MAX_SLOTS == 16
TARGET_HARD_DELTA_HOURS == 5
UNIVERSAL_MAXIMUM_HOURS == 19
TRAINING_MIN_HOURS == 1
FRONT_DESK_COVERAGE_WEIGHT == 10000
SHIFT_LENGTH_DAILY_COST == 6
LARGE_DEVIATION_SLOT_THRESHOLD == 4
EMPLOYEE_LARGE_DEVIATION_PENALTY == 5000
FAVORED_HOURS_BONUS_WEIGHT == 200
TRAINING_MIN_SLOTS == TRAINING_MIN_HOURS * 2
TRAINING_TARGET_FRACTION == <<35, 100>>    \* 0.35 as numerator and denominator

None == "None"

VARIABLES
    employees,                  \* staff_data.employees (list, input order)
    qual,                       \* staff_data.qual: employee -> set of roles
    unavailable,                \* staff_data.unavailable: employee -> day -> set of slots
    weekly_hour_limits,         \* employee -> max hours (eighths of an hour)
    target_weekly_hours,        \* employee -> target hours (eighths of an hour)
    department_max_hours,       \* department -> max hours (eighths of an hour)
    favored_employees,          \* favored employee -> multiplier (tenths)
    timeset_requests,           \* sequence of TimesetRequest records
    training_requests,          \* sequence of TrainingRequest records
    enforce_min_dept_block,     \* bool parameter
    min_slots_override,         \* <<>> (None) or <<number of slots>>
    max_slots_override,         \* <<>> (None) or <<number of slots>>
    target_hard_delta_override, \* <<>> (None) or <<number of hours>>
    pc,                         \* position in solve_schedule
    forced_assignments,         \* set of <<e, d, t, r>>
    status,                     \* solver status
    work,                       \* solver.value(work[e,d,t])
    assign,                     \* roles r with solver.value(assign[e,d,t,r]) = 1
    validation_errors,          \* the validator's list, as a set of error tuples
    diagnostics,                \* the sections and hints printed by STEP 13
    exported,                   \* an export file has been written
    show_progress,              \* bool parameter
    solver_max_time,            \* time limit in seconds (0: none)
    stop_event,                 \* threading.Event: the flag is set
    progress_thread,            \* None, or the position of _progress
    prints_after_stop,          \* progress lines printed after the flag was set
    join_timed_out,             \* join(timeout=1) returned with the task alive
    call,                       \* <<>> or <<arguments of a derived quantity under test>>
    ret                         \* <<>> or <<the value computed for call>>

inputs == <<employees, qual, unavailable, weekly_hour_limits, target_weekly_hours,
            department_max_hours, favored_employees, timeset_requests,
            training_requests,
            enforce_min_dept_block, min_slots_override, max_slots_override,
            target_hard_delta_override>>
derived == <<call, ret>>
report == <<diagnostics, exported>>
task == <<show_progress, solver_max_time, progress_thread, prints_after_stop, join_timed_out>>
progress == <<stop_event, task>>
vars == <<inputs, pc, forced_assignments, status, work, assign, validation_errors, report,
          derived, progress>>

(***************************************************************************)
(* Arithmetic helpers                                                      *)
(***************************************************************************)
Min(a, b) == IF a <= b THEN a ELSE b
Max(a, b) == IF a >= b THEN a ELSE b

\* Python int(round(n / den)) for n >= 0: round half to even
PyRound(n, den) ==
    LET q == n \div den
        r2 == 2 * (n % den)
    IN  IF r2 < den THEN q
        ELSE IF r2 > den THEN q + 1
        ELSE IF q % 2 = 0 THEN q ELSE q + 1

\* Python int(n / den) for n >= 0: truncation
PyInt(n, den) == n \div den

RECURSIVE SumOver(_, _)
SumOver(S, f) ==
    IF S = {} THEN 0
    ELSE LET x == CHOOSE y \in S : TRUE IN f[x] + SumOver(S \ {x}, f)

SeqToSet(s) == {s[i] : i \in 1..Len(s)}

(***************************************************************************)
(* STEP 2: problem domain (solver.py 146-214)                              *)
(***************************************************************************)
employee_set == SeqToSet(employees)

\* staff_loader.py 77-130: roles=sorted(all_roles) is the union of the qualifications
staff_roles == UNION {qual[e] : e \in employee_set}

\* solver.py 157: front desk first, then the other staff roles
roles == {FRONT_DESK_ROLE} \cup staff_roles

\* solver.py 162-165: every staff role but front desk
department_roles == staff_roles \ {FRONT_DESK_ROLE}

\* solver.py 167-172: department roles without a row in the requirements CSV
missing_max == {r \in department_roles : r \notin DOMAIN department_max_hours}

\* solver.py 173-175: requirement rows that match no staff role (warning only)
extra_departments == {r \in DOMAIN department_max_hours : r \notin roles}

\* solver.py 187-190
department_sizes ==
    [r \in department_roles |-> Cardinality({e \in employee_set : r \in qual[e]})]

\* solver.py 191-195
zero_capacity_departments == {r \in department_roles : department_sizes[r] = 0}

\* solver.py 94-98: settings overrides
MAX_SLOTS_LOCAL == IF max_slots_override # <<>> THEN max_slots_override[1] ELSE MAX_SLOTS
MIN_SLOTS_LOCAL == IF min_slots_override # <<>> THEN min_slots_override[1] ELSE MIN_SLOTS
TARGET_HARD_DELTA_HOURS_LOCAL ==
    IF target_hard_delta_override # <<>> THEN target_hard_delta_override[1]
    ELSE TARGET_HARD_DELTA_HOURS

is_favored(e) == e \in DOMAIN favored_employees

is_unavailable(e, d, t) == t \in unavailable[e][d]

(***************************************************************************)
(* Timeset validation (solver.py 216-287)                                  *)
(***************************************************************************)
\* solver.py 250: slots = list(range(req.start_slot, req.end_slot))
timeset_slots(req) == req.start_slot..(req.end_slot - 1)

\* solver.py 265
weekly_limit_slots(e) == PyRound(2 * weekly_hour_limits[e], 8)

\* solver.py 219-285: the conditions under which the loop body raises: the
\* ValueErrors of 220-271, and the IndexError of SLOT_NAMES[t] (285) for a slot
\* beyond the grid
timeset_error(req) ==
    IF req.employee \notin employee_set THEN TRUE
    ELSE IF req.day \notin days THEN TRUE
    ELSE IF req.department \notin department_roles /\ req.department # FRONT_DESK_ROLE
         THEN TRUE
    ELSE IF timeset_slots(req) = {} THEN TRUE
    ELSE IF \E t \in timeset_slots(req) : is_unavailable(req.employee, req.day, t)
         THEN TRUE
    ELSE IF /\ weekly_limit_slots(req.employee) # 0
            /\ Cardinality(timeset_slots(req)) > weekly_limit_slots(req.employee)
         THEN TRUE
    ELSE \E t \in timeset_slots(req) : t \notin T

\* solver.py 276-277
timeset_forced(req) ==
    {<<req.employee, req.day, t, req.department>> : t \in timeset_slots(req)}

(***************************************************************************)
(* STEP 6: decision variables and timeset forcing (solver.py 526-597)      *)
(***************************************************************************)
\* solver.py 545-552: the assign variable exists
assign_exists(e, d, t, r) ==
    r \in roles /\ (r \in qual[e] \/ <<e, d, t, r>> \in forced_assignments)

\* solver.py 748
employee_roles_at_slot(e, d, t) == {r \in roles : assign_exists(e, d, t, r)}

\* solver.py 573
forced_employee_days == {<<f[1], f[2]>> : f \in forced_assignments}

\* solver.py 578-580
emp_day_slots(e, d) == {f[3] : f \in {g \in forced_assignments : g[1] = e /\ g[2] = d}}

\* solver.py 583-585
forced_slot_count(e, d) == Cardinality(emp_day_slots(e, d))

\* solver.py 587-593: the sorted forced slots of (e, d) have a gap
forced_employee_days_with_gaps ==
    {ed \in forced_employee_days :
        \E a \in emp_day_slots(ed[1], ed[2]) : \E b \in emp_day_slots(ed[1], ed[2]) :
            /\ b > a + 1
            /\ \A m \in (a + 1)..(b - 1) : m \notin emp_day_slots(ed[1], ed[2])}

(***************************************************************************)
(* A candidate valuation.  A cell c = [w |-> work[e,d,t], a |-> the roles  *)
(* r whose variable assign[e,d,t,r] is 1]; a day plan p maps each slot of  *)
(* T to a cell; a week plan maps each day to a day plan; a solution maps   *)
(* each employee to a week plan.                                           *)
(***************************************************************************)
worked(p) == {t \in T : p[t].w = 1}
role_slots(p, r) == {t \in T : r \in p[t].a}

\* the first slots of the maximal runs of X: where a transition 0 -> 1 forces a
\* start marker (constraints 7.3/7.4, and their front-desk analogue)
run_starts(X) == {t \in X : t - 1 \notin X}

(***************************************************************************)
(* Per-slot constraints                                                    *)
(***************************************************************************)
\* solver.py 555-569: model.add(work == 1), model.add(assign == 1)
\* variant of the forcing below that skips a role the employee is not qualified for
timeset_forcing_qualified_only(e, d, t, c) ==
    \A r \in roles :
        (<<e, d, t, r>> \in forced_assignments /\ r \in qual[e]) => (c.w = 1 /\ r \in c.a)

timeset_forcing(e, d, t, c) ==
    \A r \in roles : <<e, d, t, r>> \in forced_assignments => (c.w = 1 /\ r \in c.a)

\* variant of STEP 8 without the constraint
availability_unenforced(e, d, t, c) == c.w \in {0, 1}

\* solver.py 730-737 (STEP 8)
availability(e, d, t, c) == is_unavailable(e, d, t) => c.w = 0

\* solver.py 750-754 (constraint 9.1)
one_role_at_a_time(e, d, t, c) ==
    Cardinality(employee_roles_at_slot(e, d, t)) > 1 => Cardinality(c.a) <= 1

\* solver.py 756-759 (constraint 9.2)
assigned_implies_working(e, d, t, c) == \A r \in c.a : 1 <= c.w

\* variant of constraint 9.2b that is skipped, like 9.1, for a single role
working_implies_assigned_unlinked(e, d, t, c) ==
    IF Cardinality(employee_roles_at_slot(e, d, t)) > 1 THEN Cardinality(c.a) = c.w
    ELSE employee_roles_at_slot(e, d, t) = {} => c.w = 0

\* solver.py 761-768 (constraint 9.2b)
working_implies_assigned(e, d, t, c) ==
    IF employee_roles_at_slot(e, d, t) # {} THEN Cardinality(c.a) = c.w ELSE c.w = 0

cell_ok(e, d, t, c) ==
    /\ timeset_forcing(e, d, t, c)
    /\ availability(e, d, t, c)
    /\ one_role_at_a_time(e, d, t, c)
    /\ assigned_implies_working(e, d, t, c)
    /\ working_implies_assigned(e, d, t, c)

(***************************************************************************)
(* STEP 7: shift contiguity and shift length (solver.py 606-690)           *)
(***************************************************************************)
\* variant of the cap below that allows a split shift on every day
effective_max_shifts_always_two(e, d) == 2

\* solver.py 611-612
effective_max_shifts(e, d) ==
    IF <<e, d>> \in forced_employee_days_with_gaps THEN 2 ELSE 1

\* solver.py 617-643 (constraints 7.1-7.5).  Every 0 -> 1 transition of work forces
\* start = 1 and every 1 -> 0 transition forces end = 1; where work does not change
\* start[t] = end[t-1] is free, which adds the same amount to both sums, so the
\* markers exist iff the number of runs is within the cap.
shift_contiguity(e, d, p) ==
    Cardinality(run_starts(worked(p))) <= effective_max_shifts(e, d)

\* solver.py 665
has_forced_assignment(e, d) == <<e, d>> \in forced_employee_days

\* variant of constraints 7.6/7.7 with a one hour minimum for favoured employees
min_shift_length_favored_hour(e, d, p) ==
    LET total_slots_today == Cardinality(worked(p))
        min_slots_today == IF is_favored(e) THEN 2 ELSE MIN_SLOTS_LOCAL
    IN  (~has_forced_assignment(e, d) /\ total_slots_today >= 1)
            => total_slots_today >= min_slots_today

\* solver.py 656-674 (constraints 7.6/7.7): works_today is 1 iff total > 0
min_shift_length(e, d, p) ==
    LET total_slots_today == Cardinality(worked(p))
        min_slots_today == IF is_favored(e) THEN FAVORED_MIN_SLOTS ELSE MIN_SLOTS_LOCAL
    IN  (~has_forced_assignment(e, d) /\ total_slots_today >= 1)
            => total_slots_today >= min_slots_today

\* solver.py 676-682
max_shift_length(e, d, p) ==
    LET standard_max == IF is_favored(e) THEN FAVORED_MAX_SLOTS ELSE MAX_SLOTS_LOCAL
        max_slots_today == Max(standard_max, forced_slot_count(e, d))
    IN  Cardinality(worked(p)) <= max_slots_today

\* variant of the tiny-shift block below that only forbids a single slot
no_tiny_shift_single_only(e, d, p) ==
    ~has_forced_assignment(e, d) => Cardinality(worked(p)) # 1

\* solver.py 684-690
no_tiny_shift(e, d, p) ==
    LET total_slots_today == Cardinality(worked(p))
    IN  ~has_forced_assignment(e, d) =>
            /\ total_slots_today # 1
            /\ (~is_favored(e) => (total_slots_today # 2 /\ total_slots_today # 3))

(***************************************************************************)
(* STEP 9B: front desk contiguity and minimum (solver.py 784-835)          *)
(***************************************************************************)
\* solver.py 785
has_frontdesk_variable(e) ==
    \E d \in days : \E t \in T : assign_exists(e, d, t, FRONT_DESK_ROLE)

\* solver.py 821-825
day_has_any_forced_fd(d) ==
    \E f \in forced_assignments : f[2] = d /\ f[4] = FRONT_DESK_ROLE

\* solver.py 811-815
has_forced_fd_assignment(e, d) ==
    \E f \in forced_assignments : f[1] = e /\ f[2] = d /\ f[4] = FRONT_DESK_ROLE

\* solver.py 788-804: frontdesk_start/frontdesk_end read as 0 where they do not
\* exist, which is exactly where assign[.., front_desk] does not exist either
frontdesk_contiguity(e, d, p) ==
    has_frontdesk_variable(e) =>
        Cardinality(run_starts(role_slots(p, FRONT_DESK_ROLE))) <= 1

\* variant of the front desk minimum below that still accepts 1.5 hours
frontdesk_minimum_three_slots(e, d, p) ==
    LET total_front_desk_slots == Cardinality(role_slots(p, FRONT_DESK_ROLE))
    IN  (/\ has_frontdesk_variable(e)
         /\ ~has_forced_fd_assignment(e, d)
         /\ ~day_has_any_forced_fd(d))
            => total_front_desk_slots \notin {1, 2}

\* solver.py 808-835
frontdesk_minimum(e, d, p) ==
    LET total_front_desk_slots == Cardinality(role_slots(p, FRONT_DESK_ROLE))
    IN  (/\ has_frontdesk_variable(e)
         /\ ~has_forced_fd_assignment(e, d)
         /\ ~day_has_any_forced_fd(d))
            => total_front_desk_slots \notin {1, 2, 3}

(***************************************************************************)
(* STEP 9C: per-role contiguity and minimum (solver.py 846-934)            *)
(***************************************************************************)
\* solver.py 866
role_var_slots(e, d, r) == {t \in T : assign_exists(e, d, t, r)}

\* variant of the role contiguity below that allows two blocks of a role
role_contiguity_two_blocks(e, d, r, p) ==
    role_var_slots(e, d, r) # {} => Cardinality(run_starts(role_slots(p, r))) <= 2

\* solver.py 872-900.  role_start/role_end exist only on role_var_slots.  The
\* first slot with a variable has role_start = assign (888); a transition
\* constraint exists only between two consecutive slots that both have a
\* variable (892); the last slot of the day has role_end = assign (899).  A
\* role_start whose predecessor slot has no variable (and that is not the
\* first), and a role_end whose successor slot has no variable (and that is
\* not the last slot of the day), are constrained by the sums only.
role_contiguity(e, d, r, p) ==
    LET V == role_var_slots(e, d, r)
        X == role_slots(p, r)
        first == CHOOSE t \in V : \A u \in V : t <= u
        forced_starts == Cardinality({t \in X : t = first \/ (t - 1 \in V /\ t - 1 \notin X)})
        forced_ends == Cardinality({t \in X :
                          t = NumSlots - 1 \/ (t + 1 \in V /\ t + 1 \notin X)})
        free_starts == Cardinality({t \in V : t # first /\ t - 1 \notin V})
        free_ends == Cardinality({t \in V : t # NumSlots - 1 /\ t + 1 \notin V})
    IN  V # {} =>
            \E a \in 0..free_starts : \E b \in 0..free_ends :
                /\ forced_starts + a <= 1
                /\ forced_ends + b <= 1
                /\ forced_starts + a = forced_ends + b

\* solver.py 906-910
has_forced_role_assignment(e, d, r) ==
    \E f \in forced_assignments : f[1] = e /\ f[2] = d /\ f[4] = r

\* solver.py 919-925
role_not_single_slot(e, d, r, p) ==
    LET fd_day_exempt == (r = FRONT_DESK_ROLE /\ day_has_any_forced_fd(d))
    IN  (/\ role_var_slots(e, d, r) # {}
         /\ ~has_forced_role_assignment(e, d, r)
         /\ ~fd_day_exempt)
            => Cardinality(role_slots(p, r)) # 1

\* variant of the conditional minimum below that ignores the toggle
min_dept_block_always(e, d, r, p) ==
    (/\ role_var_slots(e, d, r) # {}
     /\ ~is_favored(e)
     /\ r # FRONT_DESK_ROLE
     /\ ~has_forced_role_assignment(e, d, r))
        => Cardinality(role_slots(p, r)) \notin {2, 3}

\* solver.py 927-934
min_dept_block(e, d, r, p) ==
    (/\ role_var_slots(e, d, r) # {}
     /\ enforce_min_dept_block
     /\ ~is_favored(e)
     /\ r # FRONT_DESK_ROLE
     /\ ~has_forced_role_assignment(e, d, r))
        => Cardinality(role_slots(p, r)) \notin {2, 3}

(***************************************************************************)
(* STEP 9D: cross-department split restriction (solver.py 943-966)         *)
(***************************************************************************)
\* variant of the restriction below that exempts favoured employees
cross_department_split_unfavored(e, d, p) ==
    LET num_with_2 == Cardinality({r \in department_roles :
                                      Cardinality(role_slots(p, r)) = 2})
        is_4_slot_shift == (Cardinality(worked(p)) = 4)
    IN  (enforce_min_dept_block /\ ~is_favored(e) /\ is_4_slot_shift) => num_with_2 <= 1

cross_department_split(e, d, p) ==
    LET num_with_2 == Cardinality({r \in department_roles :
                                      Cardinality(role_slots(p, r)) = 2})
        is_4_slot_shift == (Cardinality(worked(p)) = 4)
    IN  (enforce_min_dept_block /\ is_4_slot_shift) => num_with_2 <= 1

day_ok(e, d, p) ==
    /\ shift_contiguity(e, d, p)
    /\ min_shift_length(e, d, p)
    /\ max_shift_length(e, d, p)
    /\ no_tiny_shift(e, d, p)
    /\ frontdesk_contiguity(e, d, p)
    /\ frontdesk_minimum(e, d, p)
    /\ \A r \in roles :
          /\ role_contiguity(e, d, r, p)
          /\ role_not_single_slot(e, d, r, p)
          /\ min_dept_block(e, d, r, p)
    /\ cross_department_split(e, d, p)

(***************************************************************************)
(* STEP 7B and the target hard window (solver.py 699-720, 1154-1211)       *)
(***************************************************************************)
week_slots(wk) == SumOver(days, [d \in days |-> Cardinality(worked(wk[d]))])

\* solver.py 700-703
availability_slots(e) ==
    NumDays * NumSlots - SumOver(days, [d \in days |-> Cardinality(unavailable[e][d])])

\* solver.py 714-715, 1164-1165
max_weekly_slots(e) == PyRound(2 * weekly_hour_limits[e], 8)

\* solver.py 719, 1166
universal_max_slots == UNIVERSAL_MAXIMUM_HOURS * 2

\* solver.py 705-720
weekly_hour_limit(e, wk) ==
    /\ week_slots(wk) <= max_weekly_slots(e)
    /\ week_slots(wk) <= universal_max_slots

\* solver.py 1159-1160
target_slots(e) == PyInt(2 * target_weekly_hours[e], 8)

\* solver.py 1161
delta_slots == TARGET_HARD_DELTA_HOURS_LOCAL * 2

\* solver.py 1163-1167
feasible_upper(e) ==
    Min(Min(target_slots(e) + delta_slots, max_weekly_slots(e)), universal_max_slots)

\* solver.py 1162, 1168: the lower bound before the timeset relaxation
unrelaxed_feasible_lower(e) ==
    Min(Min(Max(0, target_slots(e) - delta_slots), availability_slots(e)), feasible_upper(e))

\* solver.py 1175-1178
total_forced_dept_slots ==
    Cardinality({f \in forced_assignments : f[4] # FRONT_DESK_ROLE})

\* solver.py 1181-1182
num_fd_qualified ==
    Max(1, Cardinality({e \in employee_set : FRONT_DESK_ROLE \in qual[e]}))

\* variant: the heavy-load reduction of a front-desk-qualified employee is
\* fl - 2 without the clamp at 0
reduction_unclamped(fl, F, is_fd_qualified, q) ==
    IF F >= 30 THEN fl
    ELSE IF is_fd_qualified
         THEN IF F >= 20 THEN fl - 2 ELSE Min(fl, F \div q)
         ELSE IF F >= 20 THEN fl \div 2 ELSE Min(fl, F \div 10)

\* variant: the burden of a front-desk-qualified employee is the remainder
\* of the division of F by q
reduction_by_remainder(fl, F, is_fd_qualified, q) ==
    IF F >= 30 THEN fl
    ELSE IF is_fd_qualified
         THEN IF F >= 20 THEN Max(0, fl - 2) ELSE Min(fl, F % q)
         ELSE IF F >= 20 THEN fl \div 2 ELSE Min(fl, F \div 10)

\* solver.py 1188-1206: the reduction for a lower bound fl > 0, F forced
\* department slots (F >= 4), q front-desk-qualified employees
reduction(fl, F, is_fd_qualified, q) ==
    IF F >= 30 THEN fl
    ELSE IF is_fd_qualified
         THEN IF F >= 20 THEN Max(0, fl - 2) ELSE Min(fl, F \div q)
         ELSE IF F >= 20 THEN fl \div 2 ELSE Min(fl, F \div 10)

\* solver.py 1173-1208
relaxed_lower(fl, has_forced, F, is_fd_qualified, q) ==
    IF has_forced /\ fl > 0 /\ F >= 4
    THEN Max(0, fl - reduction(fl, F, is_fd_qualified, q))
    ELSE fl

\* variant: only the first row of the staff file gets the relaxation
feasible_lower_of_first_row(e) ==
    IF e = employees[1]
    THEN relaxed_lower(unrelaxed_feasible_lower(e), forced_assignments # {},
                       total_forced_dept_slots, FRONT_DESK_ROLE \in qual[e], num_fd_qualified)
    ELSE unrelaxed_feasible_lower(e)

feasible_lower(e) ==
    relaxed_lower(unrelaxed_feasible_lower(e), forced_assignments # {},
                  total_forced_dept_slots, FRONT_DESK_ROLE \in qual[e], num_fd_qualified)

\* solver.py 1210-1211
target_window(e, wk) ==
    /\ week_slots(wk) >= feasible_lower(e)
    /\ week_slots(wk) <= feasible_upper(e)

\* solver.py 1214-1218: over_target and under_target have domain 0..100
target_deviation_domain(e, wk) ==
    /\ week_slots(wk) - target_slots(e) <= 100
    /\ target_slots(e) - week_slots(wk) <= 100

week_ok(e, wk) ==
    /\ weekly_hour_limit(e, wk)
    /\ target_window(e, wk)
    /\ target_deviation_domain(e, wk)

(***************************************************************************)
(* Constraints across employees.  dj maps each employee to a day plan of   *)
(* one day d; sol maps each day to such a dj.                              *)
(***************************************************************************)
\* sum(assign.get((emp, d, t, "front_desk"), 0) for emp in employees)
num_front_desk(dj, t) ==
    Cardinality({e \in employee_set : FRONT_DESK_ROLE \in dj[e][t].a})

\* variant of constraint 9.3 that accepts front desk coverage in any slot of the day
front_desk_supervision_any_slot(dj) ==
    \A e \in employee_set : \A t \in T : \A r \in department_roles :
        r \in dj[e][t].a => \E u \in T : num_front_desk(dj, u) >= 1

\* variant of constraint 9.3 that is posted only for the roles an employee is
\* qualified for
front_desk_supervision_of_qualified(dj) ==
    \A e \in employee_set : \A t \in T : \A r \in department_roles \cap qual[e] :
        r \in dj[e][t].a => num_front_desk(dj, t) >= 1

\* solver.py 770-777 (constraint 9.3)
front_desk_supervision(dj) ==
    \A e \in employee_set : \A t \in T : \A r \in department_roles :
        r \in dj[e][t].a => num_front_desk(dj, t) >= 1

\* variant of STEP 10 that lets two employees share the front desk
front_desk_exclusive_pair(dj) ==
    \A t \in T : num_front_desk(dj, t) <= 2

\* solver.py 977-995 (STEP 10): has_front_desk only feeds the objective
front_desk_exclusive(dj) ==
    \A t \in T : num_front_desk(dj, t) <= 1

day_cross_ok(dj) ==
    /\ front_desk_supervision(dj)
    /\ front_desk_exclusive(dj)

\* solver.py 420-429.  Names compare as Python strings; the model's department
\* names are ordered by DeptRank.
DeptRank == [r \in {"events", "marketing", "outreach"} |->
                IF r = "events" THEN 1 ELSE IF r = "marketing" THEN 2 ELSE 3]

primary_department_for_employee(e) ==
    LET depts == {r \in department_roles : r \in qual[e]}
    IN  IF depts = {} THEN None
        ELSE CHOOSE r \in depts : \A x \in depts :
                \/ department_sizes[r] < department_sizes[x]
                \/ (department_sizes[r] = department_sizes[x] /\ DeptRank[r] <= DeptRank[x])

\* Python's sorted() on a list: a stable sort, here by insertion of the last
\* element into the sorted front; key maps an element to <<size, name rank>>
\* and tuples compare lexicographically
key_less(k1, k2) == k1[1] < k2[1] \/ (k1[1] = k2[1] /\ k1[2] < k2[2])

RECURSIVE insert_by_key(_, _, _)
insert_by_key(x, s, key) ==
    IF s = <<>> THEN <<x>>
    ELSE IF key_less(key[x], key[s[Len(s)]])
         THEN Append(insert_by_key(x, SubSeq(s, 1, Len(s) - 1), key), s[Len(s)])
         ELSE Append(s, x)

RECURSIVE sorted(_, _)
sorted(s, key) ==
    IF s = <<>> THEN <<>>
    ELSE insert_by_key(s[Len(s)], sorted(SubSeq(s, 1, Len(s) - 1), key), key)

\* variant: the sort key is the department size alone
primary_sort_key_size_only(r) == <<department_sizes[r], 0>>

\* solver.py 428: key=lambda r: (department_sizes[r], r)
primary_sort_key(r) == <<department_sizes[r], DeptRank[r]>>

\* solver.py 161-165, 423: the employee's departments in the order of the
\* department list
depts(e, department_list) ==
    SelectSeq(department_list, LAMBDA r : r \in department_roles /\ r \in qual[e])

\* solver.py 420-429 on the department list: first element of the sorted list
primary_department(e, department_list) ==
    IF depts(e, department_list) = <<>> THEN None
    ELSE sorted(depts(e, department_list),
                [r \in department_roles |-> primary_sort_key(r)])[1]

\* the week plan of employee e in solution sol
week_of(sol, e) == [d \in days |-> sol[d][e]]

slots_in_role(sol, e, r) ==
    SumOver(days, [d \in days |-> Cardinality(role_slots(sol[d][e], r))])

\* solver.py 1008-1016
department_assignments(sol, r) ==
    SumOver(employee_set, [e \in employee_set |-> slots_in_role(sol, e, r)])

\* solver.py 1017-1028
dual_front_desk_slots(sol, r) ==
    SumOver({e \in employee_set : primary_department_for_employee(e) = r},
            [e \in employee_set |-> slots_in_role(sol, e, FRONT_DESK_ROLE)])

\* solver.py 1029-1032
department_effective_units(sol, r) ==
    2 * department_assignments(sol, r) + dual_front_desk_slots(sol, r)

\* solver.py 1066-1069
department_max_units(r) == PyRound(4 * department_max_hours[r], 8)

\* solver.py 1084-1085
department_maximum(sol) ==
    \A r \in department_roles :
        department_effective_units(sol, r) <= department_max_units(r)

week_cross_ok(sol) ==
    /\ \A e \in employee_set : week_ok(e, week_of(sol, e))
    /\ department_maximum(sol)

(***************************************************************************)
(* The set of feasible solutions: every valuation of work and assign that  *)
(* satisfies all the constraints above.  The set is built slot by slot,    *)
(* day by day, employee by employee, filtering as soon as a constraint's   *)
(* variables are all chosen.                                               *)
(***************************************************************************)
cell_candidates(e, d, t) ==
    {[w |-> w, a |-> a] : w \in {0, 1}, a \in SUBSET employee_roles_at_slot(e, d, t)}

feasible_cells(e, d, t) == {c \in cell_candidates(e, d, t) : cell_ok(e, d, t, c)}

RECURSIVE day_candidates(_, _, _)
day_candidates(e, d, n) ==
    IF n = 0 THEN {<<>>}
    ELSE {[t \in 0..(n - 1) |-> IF t = n - 1 THEN c ELSE p[t]] :
            p \in day_candidates(e, d, n - 1), c \in feasible_cells(e, d, n - 1)}

feasible_days(e, d) == {p \in day_candidates(e, d, NumSlots) : day_ok(e, d, p)}

RECURSIVE joint_day_candidates(_, _)
joint_day_candidates(d, n) ==
    IF n = 0 THEN {<<>>}
    ELSE {[e \in {employees[i] : i \in 1..n} |-> IF e = employees[n] THEN p ELSE dj[e]] :
            dj \in joint_day_candidates(d, n - 1), p \in feasible_days(employees[n], d)}

feasible_joint_days(d) ==
    {dj \in joint_day_candidates(d, Len(employees)) : day_cross_ok(dj)}

RECURSIVE solution_candidates(_)
solution_candidates(n) ==
    IF n = 0 THEN {<<>>}
    ELSE {[d \in {DAY_NAMES[i] : i \in 1..n} |-> IF d = DAY_NAMES[n] THEN dj ELSE sol[d]] :
            sol \in solution_candidates(n - 1), dj \in feasible_joint_days(DAY_NAMES[n])}

feasible_solutions == {sol \in solution_candidates(NumDays) : week_cross_ok(sol)}

(***************************************************************************)
(* Inputs.  Init draws the arguments of solve_schedule and the contents of *)
(* the two CSV files from the scenario families below.                     *)
(***************************************************************************)
Timeset(e, d, r, a, b) ==
    [employee |-> e, day |-> d, department |-> r, start_slot |-> a, end_slot |-> b]

Staff == {"ann", "bob"}
FD == FRONT_DESK_ROLE

Quals(qa, qb) == [e \in Staff |-> IF e = "ann" THEN qa ELSE qb]
Hours(ha, hb) == [e \in Staff |-> IF e = "ann" THEN ha ELSE hb]
DeptHours(he, hm) == [r \in {"events", "marketing"} |-> IF r = "events" THEN he ELSE hm]
Unavail(e, d, S) == [x \in Staff |-> [y \in days |-> IF x = e /\ y = d THEN S ELSE {}]]
Favored(S) == [e \in S |-> 10]

QualChoices ==
    { Quals({FD, "events"}, {FD}),
      Quals({"events"}, {FD}),
      Quals({FD, "events"}, {FD, "events"}),
      Quals({"events", "marketing"}, {FD}) }

TimesetChoices ==
    { <<>>,
      <<Timeset("ann", "Mon", "events", 1, 2)>>,
      <<Timeset("ann", "Mon", "events", 0, 2)>>,
      <<Timeset("ann", "Mon", "events", 0, 1), Timeset("ann", "Mon", "events", 2, 4)>>,
      <<Timeset("ann", "Mon", "events", 0, 2), Timeset("ann", "Mon", FD, 4, 6)>>,
      <<Timeset("bob", "Mon", "events", 1, 3)>>,
      <<Timeset("bob", "Mon", "events", 0, 1), Timeset("bob", "Mon", "events", 2, 4)>>,
      <<Timeset("bob", "Mon", FD, 0, 1)>>,
      <<Timeset("ann", "Tue", "events", 0, 4)>> }

BadTimesetChoices ==
    { <<Timeset("ann", "Mon", "events", 3, 3)>>,
      <<Timeset("zed", "Mon", "events", 0, 2)>>,
      <<Timeset("ann", "Sat", "events", 0, 2)>>,
      <<Timeset("ann", "Mon", "finance", 0, 2)>>,
      <<Timeset("ann", "Mon", "events", NumSlots - 1, NumSlots + 1)>>,
      <<Timeset("ann", "Mon", "events", 0, 2), Timeset("bob", "Mon", FD, 2, 2)>> }

BaseScenario ==
    [employees |-> <<"ann", "bob">>,
     qual |-> Quals({FD, "events"}, {FD}),
     unavailable |-> Unavail("ann", "Mon", {}),
     weekly_hour_limits |-> Hours(160, 160),
     target_weekly_hours |-> Hours(20, 20),
     department_max_hours |-> DeptHours(80, 80),
     favored_employees |-> Favored({}),
     timeset_requests |-> <<>>,
     training_requests |-> <<>>,
     enforce_min_dept_block |-> TRUE,
     min_slots_override |-> <<>>,
     max_slots_override |-> <<>>,
     target_hard_delta_override |-> <<1>>]

\* qualifications, timesets, favoured employees and the block toggle
StructureScenarios ==
    {[BaseScenario EXCEPT !.qual = q, !.timeset_requests = ts,
                          !.favored_employees = Favored(fv),
                          !.enforce_min_dept_block = en] :
        q \in QualChoices, ts \in TimesetChoices, fv \in {{}, {"ann"}}, en \in BOOLEAN}

\* requests that the validation loop rejects
RejectedScenarios ==
    {[BaseScenario EXCEPT !.timeset_requests = ts] : ts \in BadTimesetChoices}
    \cup {[BaseScenario EXCEPT !.unavailable = Unavail("ann", "Mon", {1}),
                               !.timeset_requests = <<Timeset("ann", "Mon", "events", 0, 2)>>],
          [BaseScenario EXCEPT !.weekly_hour_limits = Hours(8, 160),
                               !.target_weekly_hours = Hours(8, 20),
                               !.timeset_requests = <<Timeset("ann", "Mon", "events", 0, 3)>>],
          [BaseScenario EXCEPT !.qual = Quals({"events"}, {"events"})],
          [BaseScenario EXCEPT !.department_max_hours = [r \in {"marketing"} |-> 80]]}

\* weekly limits, targets, the target window and the department maxima
\* (eighths of an hour: 160 = 20 h, 23 = 2.875 h, 22 = 2.75 h, 16 = 2 h, 11 = 1.375 h)
HoursScenarios ==
    {[BaseScenario EXCEPT !.weekly_hour_limits = Hours(h, 160),
                          !.target_weekly_hours = Hours(Min(h, tg), 20),
                          !.target_hard_delta_override = dl,
                          !.department_max_hours = DeptHours(dm, 80),
                          !.favored_employees = Favored(fv),
                          !.timeset_requests = ts] :
        h \in {160, 23, 22, 16}, tg \in {20, 23}, dl \in {<<>>, <<1>>, <<0>>},
        dm \in {80, 11, 8}, fv \in {{}, {"ann"}},
        ts \in {<<>>, <<Timeset("ann", "Tue", "events", 0, 4)>>}}

\* unavailability and the shift length overrides
AvailabilityScenarios ==
    {[BaseScenario EXCEPT !.qual = q, !.unavailable = Unavail(u[1], u[2], u[3]),
                          !.timeset_requests = ts,
                          !.min_slots_override = ov[1],
                          !.max_slots_override = ov[2]] :
        q \in {Quals({FD, "events"}, {FD}), Quals({FD, "events"}, {FD, "events"})},
        u \in {<<"ann", "Mon", {0}>>, <<"ann", "Mon", {2}>>, <<"bob", "Mon", {5}>>,
               <<"bob", "Tue", T>>},
        ts \in {<<>>, <<Timeset("ann", "Mon", "events", 3, 5)>>,
                <<Timeset("bob", "Tue", FD, 0, NumSlots)>>},
        ov \in {<< <<>>, <<>> >>, << <<>>, <<5>> >>, << <<5>>, <<>> >>, << <<2>>, <<5>> >>}}

\* the block toggle off, two departments and the default target window
ToggleOffScenarios ==
    {[BaseScenario EXCEPT !.qual = Quals({"events", "marketing"}, {FD}),
                          !.enforce_min_dept_block = FALSE,
                          !.target_hard_delta_override = <<>>]}

\* two timesets of one employee, each within the weekly limit of 1.5 h
\* (3 slots), together beyond it
CumulativeTimesetScenarios ==
    {[BaseScenario EXCEPT !.weekly_hour_limits = Hours(12, 160),
                          !.target_weekly_hours = Hours(12, 20),
                          !.timeset_requests = <<Timeset("ann", "Mon", "events", 0, 2),
                                                 Timeset("ann", "Tue", "events", 0, 2)>>]}

\* the only front-desk-qualified employee is unavailable in the first or in
\* the last slot of Monday
UncoveredSlotScenarios ==
    {[BaseScenario EXCEPT !.qual = Quals({"events"}, {FD}),
                          !.unavailable = Unavail("bob", "Mon", {t})] :
        t \in {0, NumSlots - 1}}

Scenarios ==
    StructureScenarios \cup RejectedScenarios \cup HoursScenarios \cup AvailabilityScenarios
        \cup ToggleOffScenarios \cup CumulativeTimesetScenarios \cup UncoveredSlotScenarios

zero_work == [e \in Staff |-> [d \in days |-> [t \in T |-> 0]]]
zero_assign == [e \in Staff |-> [d \in days |-> [t \in T |-> {}]]]

Init ==
    \E sc \in Scenarios :
        /\ employees = sc.employees
        /\ qual = sc.qual
        /\ unavailable = sc.unavailable
        /\ weekly_hour_limits = sc.weekly_hour_limits
        /\ target_weekly_hours = sc.target_weekly_hours
        /\ department_max_hours = sc.department_max_hours
        /\ favored_employees = sc.favored_employees
        /\ timeset_requests = sc.timeset_requests
        /\ training_requests = sc.training_requests
        /\ enforce_min_dept_block = sc.enforce_min_dept_block
        /\ min_slots_override = sc.min_slots_override
        /\ max_slots_override = sc.max_slots_override
        /\ target_hard_delta_override = sc.target_hard_delta_override
        /\ pc = "validate"
        /\ forced_assignments = {}
        /\ status = None
        /\ work = zero_work
        /\ assign = zero_assign
        /\ validation_errors = {}
        /\ diagnostics = {}
        /\ exported = FALSE
        /\ show_progress = FALSE
        /\ solver_max_time = 0
        /\ stop_event = FALSE
        /\ progress_thread = None
        /\ prints_after_stop = 0
        /\ join_timed_out = FALSE
        /\ call = <<>>
        /\ ret = <<>>

(***************************************************************************)
(* Training requests and the diagnostics of STEP 13                        *)
(***************************************************************************)
\* solver.py 346-366: the conditions under which a training request raises
training_error(req) ==
    \/ req.department \notin department_roles
    \/ req.trainee_one \notin employee_set
    \/ req.trainee_two \notin employee_set
    \/ req.trainee_one = req.trainee_two
    \/ req.department \notin qual[req.trainee_one]
    \/ req.department \notin qual[req.trainee_two]

\* solver.py 431-439: slots in which no front-desk-qualified employee is available
front_desk_unavailable_slots ==
    {dt \in days \X T :
        ~\E e \in employee_set :
            FRONT_DESK_ROLE \in qual[e] /\ ~is_unavailable(e, dt[1], dt[2])}

\* solver.py 446
workable_min_len(e) == IF is_favored(e) THEN FAVORED_MIN_SLOTS ELSE MIN_SLOTS_LOCAL

\* solver.py 443-463: the available slots of (e, d) that lie in a run of
\* consecutive available slots of at least the minimum shift length
workable_slots(e, d) ==
    LET avail_slots == {t \in T : ~is_unavailable(e, d, t)}
        run(t) == {u \in avail_slots : \A m \in Min(t, u)..Max(t, u) : m \in avail_slots}
    IN  {t \in avail_slots : Cardinality(run(t)) >= workable_min_len(e)}

\* solver.py 1388-1398: the slots counted for training request req
available_overlap_slots(req) ==
    Cardinality({dt \in days \X T :
        /\ dt[2] \in workable_slots(req.trainee_one, dt[1])
        /\ dt[2] \in workable_slots(req.trainee_two, dt[1])
        /\ assign_exists(req.trainee_one, dt[1], dt[2], req.department)
        /\ assign_exists(req.trainee_two, dt[1], dt[2], req.department)})

\* solver.py 441, 1409-1411: the dictionary gets an entry only for a request
\* with a positive count
training_available_overlap ==
    [idx \in {i \in 1..Len(training_requests) :
                  available_overlap_slots(training_requests[i]) > 0}
        |-> available_overlap_slots(training_requests[idx])]

\* solver.py 1753-1766: the warnings printed for timeset number i
timeset_issues(i) ==
    LET ts == timeset_requests[i]
    IN  (IF ts.department \notin qual[ts.employee]
         THEN {<<"WARNING", i, "not normally qualified">>} ELSE {})
        \cup (IF 4 * Cardinality(timeset_slots(ts)) > weekly_hour_limits[ts.employee]
              THEN {<<"WARNING", i, "exceeds max hours">>} ELSE {})
        \cup (IF \E t \in timeset_slots(ts) : is_unavailable(ts.employee, ts.day, t)
              THEN {<<"WARNING", i, "unavailable">>} ELSE {})

\* solver.py 1798-1816: slots of department timeset ts in which nobody else can
\* take the front desk
problem_slots(ts) ==
    {t \in timeset_slots(ts) :
        ~\E fd_emp \in employee_set :
            /\ FRONT_DESK_ROLE \in qual[fd_emp]
            /\ fd_emp # ts.employee
            /\ ~is_unavailable(fd_emp, ts.day, t)
            /\ ~\E f \in forced_assignments :
                    f[1] = fd_emp /\ f[2] = ts.day /\ f[3] = t /\ f[4] # FRONT_DESK_ROLE}

\* solver.py 1780-1842
timeset_conflicts ==
    {<<"CONFLICT", i>> : i \in {j \in 1..Len(timeset_requests) :
        /\ timeset_requests[j].department # FRONT_DESK_ROLE
        /\ problem_slots(timeset_requests[j]) # {}}}

\* solver.py 1853-1870: the training section
training_pair_reports ==
    IF DOMAIN training_available_overlap # {}
    THEN {<<"TRAINING PAIR CONFLICT", idx>> : idx \in
              {i \in DOMAIN training_available_overlap : training_available_overlap[i] = 0}}
         \cup {<<"TRAINING PAIR WARNING", idx>> : idx \in
              {i \in DOMAIN training_available_overlap :
                  training_available_overlap[i] # 0 /\ training_available_overlap[i] < 4}}
    ELSE IF training_requests # <<>> THEN {<<"TRAINING PAIR ISSUE">>} ELSE {}

\* solver.py 1856, 1867: the branches of the training section that set issues_found
training_issue ==
    IF DOMAIN training_available_overlap # {}
    THEN \E idx \in DOMAIN training_available_overlap : training_available_overlap[idx] = 0
    ELSE training_requests # <<>>

\* solver.py 1873-1879
total_employee_target_hours == SumOver(employee_set, target_weekly_hours)
total_available_slots ==
    Cardinality({x \in employee_set \X days \X T : ~is_unavailable(x[1], x[2], x[3])})
targets_exceed_availability == total_employee_target_hours > 4 * total_available_slots

\* solver.py 1737-1888: the value of issues_found after the sections
issues_found ==
    \/ timeset_requests # <<>>
    \/ front_desk_unavailable_slots # {}
    \/ training_issue
    \/ targets_exceed_availability

\* solver.py 1731-1902 and console.py 39-45: what is printed for a status
\* that is neither OPTIMAL nor FEASIBLE
diagnostics_report ==
    {<<"SCHEDULE COULD NOT BE GENERATED">>, <<"SCHEDULE STATISTICS">>,
     <<"No solution found!">>}
    \cup (IF timeset_requests # <<>>
          THEN {<<"TIMESETS ACTIVE">>, <<"CHECKING FRONT DESK COVERAGE DURING TIMESETS">>}
               \cup UNION {timeset_issues(i) : i \in 1..Len(timeset_requests)}
               \cup timeset_conflicts
          ELSE {})
    \cup (IF front_desk_unavailable_slots # {} THEN {<<"FRONT DESK COVERAGE GAP">>} ELSE {})
    \cup training_pair_reports
    \cup (IF targets_exceed_availability
          THEN {<<"WARNING: Target hours exceed available hours">>} ELSE {})
    \cup (IF ~issues_found
          THEN {<<"NO SPECIFIC ISSUE DETECTED">>, <<"Increase solver time limit">>}
          ELSE {})

(***************************************************************************)
(* Actions                                                                 *)
(***************************************************************************)
\* solver.py 153-287: a ValueError leaves solve_schedule
input_error ==
    \/ FRONT_DESK_ROLE \notin staff_roles
    \/ missing_max # {}
    \/ zero_capacity_departments # {}
    \/ \E i \in 1..Len(timeset_requests) : timeset_error(timeset_requests[i])
    \/ \E i \in 1..Len(training_requests) : training_error(training_requests[i])

\* variant: the error is raised only after an export file was written
RejectInputAfterExport ==
    /\ pc = "validate"
    /\ input_error
    /\ pc' = "raised"
    /\ exported' = TRUE
    /\ UNCHANGED <<inputs, forced_assignments, status, work, assign, validation_errors,
                   diagnostics, derived, progress>>

RejectInput ==
    /\ pc = "validate"
    /\ input_error
    /\ pc' = "raised"
    /\ UNCHANGED <<inputs, forced_assignments, status, work, assign, validation_errors, report, derived, progress>>

AcceptInput ==
    /\ pc = "validate"
    /\ ~input_error
    /\ forced_assignments' =
          UNION {timeset_forced(timeset_requests[i]) : i \in 1..Len(timeset_requests)}
    /\ pc' = "solve"
    /\ UNCHANGED <<inputs, status, work, assign, validation_errors, report, derived, progress>>

\* solver.py 1676-1677: the solver returns a valuation that satisfies every
\* constraint, and the flag of the progress task is set
SolveFeasible ==
    /\ pc = "solve"
    /\ \E sol \in feasible_solutions :
          /\ work' = [e \in employee_set |-> [d \in days |-> [t \in T |-> sol[d][e][t].w]]]
          /\ assign' = [e \in employee_set |-> [d \in days |-> [t \in T |-> sol[d][e][t].a]]]
    /\ status' = "FEASIBLE"
    /\ pc' = "validate_solution"
    /\ stop_event' = TRUE
    /\ UNCHANGED <<inputs, forced_assignments, validation_errors, report, derived, task>>

\* solver.py 1676: no valuation satisfies the constraints
SolveInfeasible ==
    /\ pc = "solve"
    /\ ~\E sol \in solution_candidates(NumDays) : week_cross_ok(sol)
    /\ status' = "INFEASIBLE"
    /\ pc' = "report"
    /\ stop_event' = TRUE
    /\ UNCHANGED <<inputs, forced_assignments, work, assign, validation_errors, report, derived, task>>

\* solver.py 1634, 1676: the time limit ends the search before a valuation or a
\* proof of infeasibility is found
SolveUnknown ==
    /\ pc = "solve"
    /\ status' = "UNKNOWN"
    /\ pc' = "report"
    /\ stop_event' = TRUE
    /\ UNCHANGED <<inputs, forced_assignments, work, assign, validation_errors, report, derived, task>>

\* solver.py 1689-1700: a slot of an employee with more than one active role
duplicate_errors ==
    {x \in {"DUPLICATE"} \X employee_set \X days \X T :
            Cardinality(assign[x[2]][x[3]][x[4]]) > 1}

\* variant: every gap is an error, the timeset-gap set is not consulted
gap_errors_without_exemption ==
    {x \in {"GAP"} \X employee_set \X days \X T \X T :
            /\ work[x[2]][x[3]][x[4]] = 1
            /\ work[x[2]][x[3]][x[5]] = 1
            /\ x[5] - x[4] > 1
            /\ \A m \in (x[4] + 1)..(x[5] - 1) : work[x[2]][x[3]][m] = 0}

\* solver.py 1702-1716: two consecutive worked slots of an employee-day that
\* are more than one slot apart, on a day outside the timeset-gap set
gap_errors ==
    {x \in {"GAP"} \X employee_set \X days \X T \X T :
            /\ work[x[2]][x[3]][x[4]] = 1
            /\ work[x[2]][x[3]][x[5]] = 1
            /\ x[5] - x[4] > 1
            /\ \A m \in (x[4] + 1)..(x[5] - 1) : work[x[2]][x[3]][m] = 0
            /\ <<x[2], x[3]>> \notin forced_employee_days_with_gaps}

\* solver.py 1686-1726 (STEP 12B): the validator fills validation_errors and
\* prints them; status is not assigned
ValidateSolution ==
    /\ pc = "validate_solution"
    /\ status = "FEASIBLE"
    /\ validation_errors' = duplicate_errors \cup gap_errors
    /\ pc' = "report"
    /\ UNCHANGED <<inputs, forced_assignments, status, work, assign, report, derived, progress>>

\* solver.py 1731-1959: STEP 13 prints the diagnostics of a status that is
\* neither OPTIMAL nor FEASIBLE; print_schedule and the two exports return at
\* once for such a status (console.py 39-45, export.py 38-39, 366-367) and
\* write the schedule otherwise; then solve_schedule returns status
Report ==
    /\ pc = "report"
    /\ IF status = "FEASIBLE"
       THEN exported' = TRUE /\ diagnostics' = diagnostics
       ELSE exported' = exported /\ diagnostics' = diagnostics_report
    /\ pc' = "done"
    /\ UNCHANGED <<inputs, forced_assignments, status, work, assign, validation_errors,
                   derived, progress>>

Next ==
    \/ RejectInput
    \/ AcceptInput
    \/ SolveFeasible
    \/ SolveInfeasible
    \/ SolveUnknown
    \/ ValidateSolution
    \/ Report

Spec == Init /\ [][Next]_vars

\* variant: both conversions truncate instead of rounding
goal_slots_floor(t1, t2) ==
    LET min_target_slots == PyInt(2 * Min(t1, t2), 8)
        training_target_slots == PyInt(min_target_slots * TRAINING_TARGET_FRACTION[1],
                              TRAINING_TARGET_FRACTION[2])
    IN  IF min_target_slots > 0
        THEN Min(Max(TRAINING_MIN_SLOTS, training_target_slots), min_target_slots)
        ELSE 0

\* solver.py 368-374: the overlap goal of a training pair whose weekly targets
\* are t1 and t2 eighths of an hour
goal_slots(t1, t2) ==
    LET min_target_slots == PyRound(2 * Min(t1, t2), 8)
        training_target_slots == PyRound(min_target_slots * TRAINING_TARGET_FRACTION[1],
                                TRAINING_TARGET_FRACTION[2])
    IN  IF min_target_slots > 0
        THEN Min(Max(TRAINING_MIN_SLOTS, training_target_slots), min_target_slots)
        ELSE 0

(***************************************************************************)
(* Derived quantities, each applied to arguments drawn from bounded sets   *)
(***************************************************************************)
\* the inputs of scenario sc are loaded and solve_schedule has not acted
InputsAre(sc) ==
    /\ employees = sc.employees
    /\ qual = sc.qual
    /\ unavailable = sc.unavailable
    /\ weekly_hour_limits = sc.weekly_hour_limits
    /\ target_weekly_hours = sc.target_weekly_hours
    /\ department_max_hours = sc.department_max_hours
    /\ favored_employees = sc.favored_employees
    /\ timeset_requests = sc.timeset_requests
    /\ training_requests = sc.training_requests
    /\ enforce_min_dept_block = sc.enforce_min_dept_block
    /\ min_slots_override = sc.min_slots_override
    /\ max_slots_override = sc.max_slots_override
    /\ target_hard_delta_override = sc.target_hard_delta_override

SolverIdle ==
    /\ forced_assignments = {}
    /\ status = None
    /\ work = zero_work
    /\ assign = zero_assign
    /\ validation_errors = {}
    /\ diagnostics = {}
    /\ exported = FALSE
    /\ show_progress = FALSE
    /\ solver_max_time = 0
    /\ stop_event = FALSE
    /\ progress_thread = None
    /\ prints_after_stop = 0
    /\ join_timed_out = FALSE

solver_state == <<inputs, forced_assignments, status, work, assign, validation_errors, report,
                  progress>>

\* bounds of the lower-bound relaxation's arguments
MaxLower == 6
MaxForced == 31
MaxQualified == 3

\* <<feasible_lower, forced_assignments non-empty, total_forced_dept_slots,
\*   is_fd_qualified, num_fd_qualified>>; a forced department slot is a forced
\* assignment
RelaxCalls ==
    {c \in (0..MaxLower) \X BOOLEAN \X (0..MaxForced) \X BOOLEAN \X (1..MaxQualified) :
        c[3] > 0 => c[2]}

RelaxInit ==
    /\ InputsAre(BaseScenario)
    /\ SolverIdle
    /\ pc = "relaxed_lower"
    /\ call \in RelaxCalls
    /\ ret = <<>>

\* solver.py 1173-1208 applied to the arguments in call
ApplyRelaxation ==
    /\ pc = "relaxed_lower"
    /\ ret = <<>>
    /\ ret' = <<relaxed_lower(call[1], call[2], call[3], call[4], call[5])>>
    /\ UNCHANGED <<solver_state, pc, call>>

RelaxNext == ApplyRelaxation

RelaxSpec == RelaxInit /\ [][RelaxNext]_vars

\* bound of a trainee's weekly target, in eighths of an hour
MaxTarget == 80

\* <<target_weekly_hours[trainee_one], target_weekly_hours[trainee_two]>>
TrainingCalls == (0..MaxTarget) \X (0..MaxTarget)

TrainingInit ==
    /\ InputsAre(BaseScenario)
    /\ SolverIdle
    /\ pc = "goal_slots"
    /\ call \in TrainingCalls
    /\ ret = <<>>

\* solver.py 368-383 applied to the targets in call
DeriveGoalSlots ==
    /\ pc = "goal_slots"
    /\ ret = <<>>
    /\ ret' = <<goal_slots(call[1], call[2])>>
    /\ UNCHANGED <<solver_state, pc, call>>

TrainingNext == DeriveGoalSlots

TrainingSpec == TrainingInit /\ [][TrainingNext]_vars

\* department names and the orders in which the departments file can list them
DeptNames == DOMAIN DeptRank
DeptOrders ==
    {o \in [1..Cardinality(DeptNames) -> DeptNames] : \A i, j \in DOMAIN o : o[i] = o[j] => i = j}

\* staff tables: every employee has a role and somebody has the front desk
PrimaryQuals ==
    {q \in [Staff -> SUBSET ({FD} \cup DeptNames) \ {{}}] : \E e \in Staff : FD \in q[e]}

PrimaryScenarios ==
    {[BaseScenario EXCEPT !.employees = es, !.qual = q] :
        es \in {<<"ann", "bob">>, <<"bob", "ann">>}, q \in PrimaryQuals}

PrimaryInit ==
    /\ \E sc \in PrimaryScenarios : InputsAre(sc)
    /\ SolverIdle
    /\ pc = "primary_department"
    /\ call \in {<<o>> : o \in DeptOrders}
    /\ ret = <<>>

\* solver.py 420-429: the loop over employees, in their order, fills the table
ChoosePrimaryDepartments ==
    /\ pc = "primary_department"
    /\ ret = <<>>
    /\ ret' = <<[e \in employee_set |-> primary_department(e, call[1])]>>
    /\ UNCHANGED <<solver_state, pc, call>>

PrimaryNext == ChoosePrimaryDepartments

PrimarySpec == PrimaryInit /\ [][PrimaryNext]_vars

(***************************************************************************)
(* The diagnostics of a run that ends without a schedule, for a staff of   *)
(* three with training pairs.  The time limit can end any search, so the   *)
(* solver's part is SolveUnknown.                                          *)
(***************************************************************************)
Trainees == Staff \cup {"cy"}

TrainingRequest(r, a, b) == [department |-> r, trainee_one |-> a, trainee_two |-> b]

\* an employee is free all week, or every day unavailable in the first two
\* slots, the last two slots, or all slots
UnavailabilityPatterns == {{}, {0, 1}, {NumSlots - 2, NumSlots - 1}, T}

TrainingRequestChoices ==
    { <<>>,
      <<TrainingRequest("events", "ann", "bob")>>,
      <<TrainingRequest("events", "ann", "cy")>>,
      <<TrainingRequest("events", "ann", "bob"), TrainingRequest("events", "ann", "cy")>>,
      <<TrainingRequest("events", "bob", "cy"), TrainingRequest("events", "ann", "bob")>>,
      <<TrainingRequest("events", "ann", "ann")>> }

DiagnosticTimesetChoices == {<<>>, <<Timeset("ann", "Mon", "events", 2, 4)>>}

DiagnosticScenarios ==
    {[BaseScenario EXCEPT
        !.employees = <<"ann", "bob", "cy">>,
        !.qual = [e \in Trainees |-> {FD, "events"}],
        !.unavailable = [e \in Trainees |-> [d \in days |->
                            IF e = "ann" THEN {} ELSE IF e = "bob" THEN ub ELSE uc]],
        !.weekly_hour_limits = [e \in Trainees |-> 160],
        !.target_weekly_hours = [e \in Trainees |-> 20],
        !.timeset_requests = ts,
        !.training_requests = tr] :
        ub \in UnavailabilityPatterns, uc \in UnavailabilityPatterns,
        ts \in DiagnosticTimesetChoices, tr \in TrainingRequestChoices}

DiagnoseInit ==
    /\ \E sc \in DiagnosticScenarios : InputsAre(sc)
    /\ pc = "validate"
    /\ forced_assignments = {}
    /\ status = None
    /\ work = [e \in Trainees |-> [d \in days |-> [t \in T |-> 0]]]
    /\ assign = [e \in Trainees |-> [d \in days |-> [t \in T |-> {}]]]
    /\ validation_errors = {}
    /\ diagnostics = {}
    /\ exported = FALSE
    /\ show_progress = FALSE
    /\ solver_max_time = 0
    /\ stop_event = FALSE
    /\ progress_thread = None
    /\ prints_after_stop = 0
    /\ join_timed_out = FALSE
    /\ call = <<>>
    /\ ret = <<>>

DiagnoseNext ==
    \/ RejectInput
    \/ AcceptInput
    \/ SolveUnknown
    \/ Report

DiagnoseSpec == DiagnoseInit /\ [][DiagnoseNext]_vars

(***************************************************************************)
(* The progress task (solver.py 1636-1681) next to the main thread, from   *)
(* the creation of the task to the return.  The solver call is the one of  *)
(* a search that the time limit ends.                                      *)
(***************************************************************************)
\* bound on the time limit, in seconds
MaxTimeLimit == 4

ProgressInit ==
    /\ InputsAre(BaseScenario)
    /\ pc = "start_progress"
    /\ forced_assignments = {}
    /\ status = None
    /\ work = zero_work
    /\ assign = zero_assign
    /\ validation_errors = {}
    /\ diagnostics = {}
    /\ exported = FALSE
    /\ show_progress \in BOOLEAN
    /\ solver_max_time \in 0..MaxTimeLimit
    /\ stop_event = FALSE
    /\ progress_thread = None
    /\ prints_after_stop = 0
    /\ join_timed_out = FALSE
    /\ call = <<>>
    /\ ret = <<>>

\* what the steps of this part leave alone
schedule_state == <<inputs, forced_assignments, work, assign, validation_errors, report,
                    derived, show_progress, solver_max_time>>

\* solver.py 1636-1654: the task is created when progress is wanted and a time
\* limit is given
StartProgress ==
    /\ pc = "start_progress"
    /\ progress_thread' = IF show_progress /\ solver_max_time # 0 THEN "while" ELSE None
    /\ pc' = "solve_call"
    /\ UNCHANGED <<schedule_state, status, stop_event, prints_after_stop, join_timed_out>>

\* solver.py 1676: solver.solve returns
SolverCallReturns ==
    /\ pc = "solve_call"
    /\ status' = "UNKNOWN"
    /\ pc' = "set_stop"
    /\ UNCHANGED <<schedule_state, stop_event, progress_thread, prints_after_stop,
                   join_timed_out>>

\* solver.py 1677: stop_event.set()
SetStopEvent ==
    /\ pc = "set_stop"
    /\ stop_event' = TRUE
    /\ pc' = "join"
    /\ UNCHANGED <<schedule_state, status, progress_thread, prints_after_stop,
                   join_timed_out>>

\* solver.py 1678-1679: without a task there is nothing to join; join returns
\* when the task has ended
JoinEnded ==
    /\ pc = "join"
    /\ progress_thread \in {None, "ended"}
    /\ pc' = "report"
    /\ UNCHANGED <<schedule_state, status, stop_event, progress_thread, prints_after_stop,
                   join_timed_out>>

\* variant: join returns at once, whatever the task does, and records no timeout
JoinWithoutWaiting ==
    /\ pc = "join"
    /\ progress_thread \notin {None, "ended"}
    /\ pc' = "report"
    /\ UNCHANGED <<schedule_state, status, stop_event, progress_thread, prints_after_stop,
                   join_timed_out>>

\* solver.py 1679: join(timeout=1) returns after a second with the task alive
JoinTimeout ==
    /\ pc = "join"
    /\ progress_thread \notin {None, "ended"}
    /\ join_timed_out' = TRUE
    /\ pc' = "report"
    /\ UNCHANGED <<schedule_state, status, stop_event, progress_thread, prints_after_stop>>

\* solver.py 1641: while not stop_event.is_set()
ProgressWhile ==
    /\ progress_thread = "while"
    /\ progress_thread' = IF stop_event THEN "last_print" ELSE "print"
    /\ UNCHANGED <<schedule_state, status, pc, stop_event, prints_after_stop, join_timed_out>>

\* solver.py 1642-1647: the progress line is printed, or the closed pipe
\* breaks the loop
ProgressPrint ==
    /\ progress_thread = "print"
    /\ \/ /\ progress_thread' = "wait"
          /\ prints_after_stop' = IF stop_event THEN prints_after_stop + 1
                                                ELSE prints_after_stop
       \/ /\ progress_thread' = "last_print"
          /\ UNCHANGED prints_after_stop
    /\ UNCHANGED <<schedule_state, status, pc, stop_event, join_timed_out>>

\* solver.py 1648: stop_event.wait(1) returns when the flag is set or after a
\* second
ProgressWait ==
    /\ progress_thread = "wait"
    /\ progress_thread' = "while"
    /\ UNCHANGED <<schedule_state, status, pc, stop_event, prints_after_stop, join_timed_out>>

\* solver.py 1649-1652: the line is cleared and the task ends
ProgressLastPrint ==
    /\ progress_thread = "last_print"
    /\ progress_thread' = "ended"
    /\ UNCHANGED <<schedule_state, status, pc, stop_event, prints_after_stop, join_timed_out>>

\* a step of the progress task
ProgressStep == ProgressWhile \/ ProgressPrint \/ ProgressWait \/ ProgressLastPrint

\* after the join, validation is skipped for this status and Report follows
ProgressNext ==
    \/ StartProgress
    \/ SolverCallReturns
    \/ SetStopEvent
    \/ JoinEnded
    \/ JoinTimeout
    \/ ProgressStep
    \/ Report

ProgressSpec == ProgressInit /\ [][ProgressNext]_vars


(***************************************************************************)
(* The objective for a staff of one front-desk-only employee on the full   *)
(* grid of config.py (solver.py 975-995, 1154-1293, 1469-1512, 1601-1626). *)
(* With no department, no favor, no timeset and no training request every  *)
(* other term of model.maximize is 0.  The objective is kept in tenths of  *)
(* a point, so that the weight 0.5 and the multipliers 1.2 and 1.5 are     *)
(* integers.                                                               *)
(***************************************************************************)
\* config.py 34-53, 56
SLOT_NAMES ==
    <<"8:00-8:30", "8:30-9:00", "9:00-9:30", "9:30-10:00", "10:00-10:30",
      "10:30-11:00", "11:00-11:30", "11:30-12:00", "12:00-12:30", "12:30-1:00",
      "1:00-1:30", "1:30-2:00", "2:00-2:30", "2:30-3:00", "3:00-3:30",
      "3:30-4:00", "4:00-4:30", "4:30-5:00">>
T_SLOTS == 0..(Len(SLOT_NAMES) - 1)
full_week == 1..Len(DAY_NAMES)

\* config.py 93-98, in tenths
YEAR_TARGET_MULTIPLIERS == <<10, 12, 15, 20>>

\* config.py 117-131 (morning_preference in tenths)
OBJECTIVE_WEIGHTS ==
    [office_coverage |-> 150, single_coverage |-> 500, target_adherence |-> 100,
     shift_length |-> 20, underclassmen_front_desk |-> 3,
     morning_preference_tenths |-> 5]

\* A day of the employee is a pair <<start, length>>: off (length 0), or one
\* contiguous block of MIN_SLOTS_LOCAL..MAX_SLOTS_LOCAL slots, all of them at
\* the front desk, the only role the employee is qualified for
\* (solver.py 587-624, 626-697, 744-777)
ShiftStarts == {0, Len(SLOT_NAMES) - MAX_SLOTS}
DayShifts ==
    {<<0, 0>>} \cup
    {sh \in ShiftStarts \X (MIN_SLOTS_LOCAL..MAX_SLOTS_LOCAL) :
        sh[1] + sh[2] <= Len(SLOT_NAMES)}
shift_slots(sh) == {t \in T_SLOTS : sh[1] <= t /\ t < sh[1] + sh[2]}

RECURSIVE slots_through(_, _)
slots_through(plan, d) ==
    IF d = 0 THEN 0 ELSE plan[d][2] + slots_through(plan, d - 1)

\* sum(work[e, d, t] for d in days for t in T)
total_slots(plan) == slots_through(plan, Len(DAY_NAMES))

\* solver.py 700-703, 1162, 1168 on the full grid with nothing unavailable
full_grid_lower(e) ==
    Min(Min(Max(0, target_slots(e) - delta_slots),
            Len(DAY_NAMES) * Len(SLOT_NAMES)),
        feasible_upper(e))

\* solver.py 705-720, 1154-1211
sole_employee_plans(e) ==
    LET lower == full_grid_lower(e)
        upper == Min(Min(max_weekly_slots(e), universal_max_slots), feasible_upper(e))
    IN {plan \in [full_week -> DayShifts] :
           LET n == total_slots(plan) IN lower <= n /\ n <= upper}

\* variant: covered slots earn nothing
front_desk_coverage_unrewarded(n) == 0 * n

\* solver.py 975-995: n slots with somebody at the front desk
front_desk_coverage_score(n) == FRONT_DESK_COVERAGE_WEIGHT * n

\* solver.py 1213-1217 for a week of n slots: the maximizer takes the
\* smallest deviations
over_target(e, n) == Max(0, n - target_slots(e))
under_target(e, n) == Max(0, target_slots(e) - n)

\* solver.py 1223-1230, in tenths (the employee is not favored)
target_adherence_score(e, year, n) ==
    0 - YEAR_TARGET_MULTIPLIERS[year] * (over_target(e, n) + under_target(e, n))

\* solver.py 1235-1250
large_deviation_penalty(e, n) ==
    0 - EMPLOYEE_LARGE_DEVIATION_PENALTY *
        ((IF over_target(e, n) >= LARGE_DEVIATION_SLOT_THRESHOLD THEN 1 ELSE 0) +
         (IF under_target(e, n) >= LARGE_DEVIATION_SLOT_THRESHOLD THEN 1 ELSE 0))

\* solver.py 1255-1271: n slots on shift_days worked days
shift_length_bonus(n, shift_days) == n - SHIFT_LENGTH_DAILY_COST * shift_days

\* solver.py 1281-1292: n front desk slots
underclassmen_preference_score(year, n) == 0 - year * n

\* solver.py 1469-1482: total_people - 1 in every slot of the grid
office_coverage_score(n) == n - Len(DAY_NAMES) * Len(SLOT_NAMES)

\* solver.py 1484-1493: one person in every worked slot
single_coverage_penalty(n) == 0 - n

\* solver.py 1502-1512
morning_workers(sh) == Cardinality({t \in shift_slots(sh) : t < 8})

RECURSIVE morning_through(_, _)
morning_through(plan, d) ==
    IF d = 0 THEN 0 ELSE morning_workers(plan[d]) + morning_through(plan, d - 1)

morning_preference_score(plan) == morning_through(plan, Len(DAY_NAMES))

\* solver.py 1601-1626, in tenths
objective(e, year, plan) ==
    LET n == total_slots(plan)
        shift_days == Cardinality({d \in full_week : plan[d][2] > 0})
    IN 10 * front_desk_coverage_score(n)
       + 10 * large_deviation_penalty(e, n)
       + 10 * OBJECTIVE_WEIGHTS.office_coverage * office_coverage_score(n)
       + 10 * OBJECTIVE_WEIGHTS.single_coverage * single_coverage_penalty(n)
       + OBJECTIVE_WEIGHTS.target_adherence * target_adherence_score(e, year, n)
       + 10 * OBJECTIVE_WEIGHTS.shift_length * shift_length_bonus(n, shift_days)
       + 10 * OBJECTIVE_WEIGHTS.underclassmen_front_desk
            * underclassmen_preference_score(year, n)
       + OBJECTIVE_WEIGHTS.morning_preference_tenths * morning_preference_score(plan)

\* the largest value model.maximize can reach over a set of plans
best_objective(e, year, plans) ==
    LET values == {objective(e, year, p) : p \in plans}
    IN CHOOSE v \in values : \A w \in values : w <= v

\* the plans an OPTIMAL solve can return (solver.py 1676, 1601)
optimal_plans(e, year) ==
    LET plans == sole_employee_plans(e)
        best == best_objective(e, year, plans)
    IN {p \in plans : objective(e, year, p) = best}

\* staff.csv of one front-desk-only employee with full availability, and a
\* requirements file without a usable department
SoleEmployeeScenario(target, limit) ==
    [BaseScenario EXCEPT
        !.employees = <<"ann">>,
        !.qual = Quals({FD}, {FD}),
        !.weekly_hour_limits = Hours(limit, limit),
        !.target_weekly_hours = Hours(target, target),
        !.target_hard_delta_override = <<>>]

\* hours in eighths: a target of 10 hours, limits of 12 and 19 hours
SoleEmployeeTargets == {10 * 8}
SoleEmployeeLimits == {12 * 8, UNIVERSAL_MAXIMUM_HOURS * 8}

MaximizeInit ==
    /\ \E target \in SoleEmployeeTargets : \E limit \in SoleEmployeeLimits :
          InputsAre(SoleEmployeeScenario(target, limit))
    /\ SolverIdle
    /\ pc = "maximize"
    /\ call \in {<<year>> : year \in DOMAIN YEAR_TARGET_MULTIPLIERS}
    /\ ret = <<>>

\* solver.py 1601-1626, 1676: an OPTIMAL solve of the sole employee's week;
\* ret holds the returned plan
Maximize ==
    /\ pc = "maximize"
    /\ ret = <<>>
    /\ \E plan \in optimal_plans(employees[1], call[1]) : ret' = <<plan>>
    /\ UNCHANGED <<solver_state, pc, call>>

MaximizeNext == Maximize

MaximizeSpec == MaximizeInit /\ [][MaximizeNext]_vars


(***************************************************************************)
(* The hard model of one staff file read in two row orders: the model is   *)
(* built, the rows are permuted, and the model is built again (solver.py   *)
(* 148-150, 420-429, 1154-1211 and the constraints of STEPS 5-10).  call   *)
(* keeps the model of the first order, ret the model of the current one.   *)
(***************************************************************************)
ReorderQuals ==
    QualChoices \cup {Quals({FD, "events", "marketing"}, {FD, "events"})}

ReorderScenarios ==
    {[BaseScenario EXCEPT !.qual = q, !.timeset_requests = ts] :
        q \in ReorderQuals, ts \in TimesetChoices \cup BadTimesetChoices}

\* the orders of the rows of one staff file
row_orders(es) ==
    {o \in [1..Len(es) -> SeqToSet(es)] : \A i, j \in DOMAIN o : o[i] = o[j] => i = j}

\* solver.py 420-429, 1154-1211 and the hard constraints
hard_model ==
    [primary_department_for_employee |->
        [e \in employee_set |-> primary_department_for_employee(e)],
     hour_window |-> [e \in employee_set |-> <<feasible_lower(e), feasible_upper(e)>>],
     feasible_solutions |-> feasible_solutions]

ReorderInit ==
    /\ \E sc \in ReorderScenarios : InputsAre(sc)
    /\ SolverIdle
    /\ pc = "validate"
    /\ call = <<>>
    /\ ret = <<>>

\* solver.py 420-1211: the model built from the accepted input
BuildHardModel ==
    /\ pc = "solve"
    /\ ret = <<>>
    /\ ret' = <<hard_model>>
    /\ UNCHANGED <<solver_state, pc, call>>

\* the same staff file with its rows in another order, read again
ReorderEmployees ==
    /\ pc = "solve"
    /\ ret # <<>>
    /\ call = <<>>
    /\ \E o \in row_orders(employees) : o # employees /\ employees' = o
    /\ call' = ret
    /\ ret' = <<>>
    /\ pc' = "validate"
    /\ forced_assignments' = {}
    /\ UNCHANGED <<qual, unavailable, weekly_hour_limits, target_weekly_hours,
                   department_max_hours, favored_employees, timeset_requests,
                   training_requests, enforce_min_dept_block, min_slots_override,
                   max_slots_override, target_hard_delta_override,
                   status, work, assign, validation_errors, report, progress>>

ReorderNext == AcceptInput \/ RejectInput \/ BuildHardModel \/ ReorderEmployees

ReorderSpec == ReorderInit /\ [][ReorderNext]_vars


(***************************************************************************)
(* The favored hours bonus (solver.py 1570-1579, 1618).  call holds a      *)
(* favored employee's multiplier, in tenths, and the number of slots the   *)
(* employee works; ret the employee's share of the objective.              *)
(***************************************************************************)
MaxMultiplierTenths == 30

\* solver.py 1578: weight = int(mult * 10)
favored_weight(mult_tenths) == PyInt(mult_tenths * 10, 10)

\* solver.py 1579: weight * sum(work[e, d, t] for d in days for t in T)
favored_hours_bonus(mult_tenths, worked_slots) == favored_weight(mult_tenths) * worked_slots

\* solver.py 1618: the term of model.maximize
favored_hours_term(mult_tenths, worked_slots) ==
    FAVORED_HOURS_BONUS_WEIGHT * favored_hours_bonus(mult_tenths, worked_slots)

FavorInit ==
    /\ InputsAre(BaseScenario)
    /\ SolverIdle
    /\ pc = "favored_hours_bonus"
    /\ call \in (1..MaxMultiplierTenths) \X (0..(NumDays * NumSlots))
    /\ ret = <<>>

RewardFavoredHours ==
    /\ pc = "favored_hours_bonus"
    /\ ret = <<>>
    /\ ret' = <<favored_hours_term(call[1], call[2])>>
    /\ UNCHANGED <<solver_state, pc, call>>

FavorNext == RewardFavoredHours

FavorSpec == FavorInit /\ [][FavorNext]_vars


(***************************************************************************)
(* Two timesets that force two separated blocks on one day of ann, and the *)
(* contiguity constraints of that day (solver.py 587-624, 784-804,         *)
(* 863-900).  ret tells, for every forced day with a gap, whether the      *)
(* constraints admit the day made of the forced slots alone.               *)
(***************************************************************************)
\* the slot ranges of the two blocks: one or two free slots between them
SplitBlocks == {<< <<0, 2>>, <<3, 5>> >>, << <<0, 2>>, <<4, NumSlots>> >>}

SplitTimesetChoices ==
    {<<Timeset("ann", "Mon", r1, b[1][1], b[1][2]), Timeset("ann", "Mon", r2, b[2][1], b[2][2])>> :
        r1 \in {FD, "events", "marketing"}, r2 \in {FD, "events", "marketing"},
        b \in SplitBlocks}

SplitScenarios ==
    {[BaseScenario EXCEPT !.qual = q, !.timeset_requests = ts] :
        q \in ReorderQuals \cup {Quals({FD}, {FD, "events"})}, ts \in SplitTimesetChoices}

\* the day of employee e on which nothing but the forced slots is worked
forced_day_plan(e, d) ==
    [t \in T |->
        LET rs == {r \in roles : <<e, d, t, r>> \in forced_assignments}
        IN [w |-> IF rs = {} THEN 0 ELSE 1, a |-> rs]]

\* solver.py 604-624, 784-804, 863-900 on day plan p
contiguity_constraints(e, d, p) ==
    /\ shift_contiguity(e, d, p)
    /\ frontdesk_contiguity(e, d, p)
    /\ \A r \in roles : role_contiguity(e, d, r, p)

SplitInit ==
    /\ \E sc \in SplitScenarios : InputsAre(sc)
    /\ SolverIdle
    /\ pc = "validate"
    /\ call = <<>>
    /\ ret = <<>>

\* solver.py 604-624, 784-804, 863-900: the contiguity constraints posted for
\* the days that forced_employee_days_with_gaps names
PostContiguity ==
    /\ pc = "solve"
    /\ ret = <<>>
    /\ ret' = <<[ed \in forced_employee_days_with_gaps |->
                   contiguity_constraints(ed[1], ed[2], forced_day_plan(ed[1], ed[2]))]>>
    /\ UNCHANGED <<solver_state, pc, call>>

SplitNext == AcceptInput \/ RejectInput \/ PostContiguity

SplitSpec == SplitInit /\ [][SplitNext]_vars


(***************************************************************************)
(* Properties of the schedules the solver can return                       *)
(***************************************************************************)
Feasible == status = "FEASIBLE"
WorkedSlots(e, d) == {t \in T : work[e][d][t] = 1}
AssignedSlots(e, d, r) == {t \in T : r \in assign[e][d][t]}
Contiguous(X) == \A a \in X : \A b \in X : \A m \in a..b : m \in X
NumIntervals(X) == Cardinality({t \in X : t - 1 \notin X})
ForcedSlots(e, d) == {t \in T : \E r \in roles : <<e, d, t, r>> \in forced_assignments}
ForcedRoleSlots(e, d, r) == {t \in T : <<e, d, t, r>> \in forced_assignments}
WeekTotal(e) == SumOver(days, [d \in days |-> Cardinality(WorkedSlots(e, d))])

\* C1: in every returned schedule an employee holds at most one role in a
\* slot, and work equals the number of roles assigned in that slot (so work
\* is 0 where the employee has no assignment variable).
C1_OneRoleAndLinkage ==
    Feasible =>
        \A e \in employee_set : \A d \in days : \A t \in T :
            /\ Cardinality(assign[e][d][t]) <= 1
            /\ work[e][d][t] = Cardinality(assign[e][d][t])
            /\ assign[e][d][t] \subseteq employee_roles_at_slot(e, d, t)
            /\ (employee_roles_at_slot(e, d, t) = {} => work[e][d][t] = 0)

\* an employee with two possible roles in a slot works exactly one of them
C1_Witness ==
    /\ Feasible
    /\ \E e \in employee_set : \E d \in days : \E t \in T :
        /\ Cardinality(employee_roles_at_slot(e, d, t)) >= 2
        /\ work[e][d][t] = 1
        /\ Cardinality(assign[e][d][t]) = 1

\* C2: the worked slots of an employee on a day form one contiguous interval,
\* unless the timesets force non-contiguous slots on that employee-day, in
\* which case they form at most two contiguous intervals.
C2_ShiftContiguity ==
    Feasible =>
        \A e \in employee_set : \A d \in days :
            NumIntervals(WorkedSlots(e, d)) <=
                (IF Contiguous(ForcedSlots(e, d)) THEN 1 ELSE 2)

\* a split shift around a forced gap, next to an ordinary one-block day
C2_Witness ==
    /\ Feasible
    /\ \E e \in employee_set : \E d \in days :
        /\ ~Contiguous(ForcedSlots(e, d))
        /\ NumIntervals(WorkedSlots(e, d)) = 2
    /\ \E e \in employee_set : \E d \in days :
        /\ ForcedSlots(e, d) = {}
        /\ Cardinality(WorkedSlots(e, d)) >= 2

\* C5: whenever an employee is assigned to a department role in a slot, a
\* different employee is assigned to the front desk in that slot; this also
\* holds for assignments forced by timesets.
C5_FrontDeskSupervision ==
    Feasible =>
        \A e \in employee_set : \A d \in days : \A t \in T :
            (assign[e][d][t] \cap department_roles # {}) =>
                \E e2 \in employee_set \ {e} : FRONT_DESK_ROLE \in assign[e2][d][t]

\* a forced department slot is covered by somebody else at the front desk
C5_Witness ==
    /\ Feasible
    /\ \E e \in employee_set : \E d \in days : \E t \in T : \E r \in department_roles :
        /\ <<e, d, t, r>> \in forced_assignments
        /\ r \in assign[e][d][t]
        /\ \E e2 \in employee_set \ {e} : FRONT_DESK_ROLE \in assign[e2][d][t]

\* C6: every slot of every validated timeset is worked in the requested role
\* in every returned schedule, also when the employee is not qualified for
\* the role; such an employee gets the role in the forced slots only.
C6_TimesetsHonoured ==
    Feasible =>
        /\ \A i \in 1..Len(timeset_requests) :
            \A t \in timeset_slots(timeset_requests[i]) :
                /\ work[timeset_requests[i].employee][timeset_requests[i].day][t] = 1
                /\ timeset_requests[i].department
                       \in assign[timeset_requests[i].employee][timeset_requests[i].day][t]
        /\ \A e \in employee_set : \A d \in days : \A t \in T : \A r \in assign[e][d][t] :
            r \notin qual[e] => <<e, d, t, r>> \in forced_assignments

\* a timeset for a role the employee is not qualified for is honoured
C6_Witness ==
    /\ Feasible
    /\ \E i \in 1..Len(timeset_requests) :
        /\ timeset_requests[i].department \notin qual[timeset_requests[i].employee]
        /\ \A t \in timeset_slots(timeset_requests[i]) :
            timeset_requests[i].department
                \in assign[timeset_requests[i].employee][timeset_requests[i].day][t]

\* C9: an employee neither works nor holds a role in a slot in which they
\* are marked unavailable.
C9_Availability ==
    Feasible =>
        \A e \in employee_set : \A d \in days : \A t \in T :
            is_unavailable(e, d, t) => work[e][d][t] = 0 /\ assign[e][d][t] = {}

\* an employee works on a day around a slot in which they are unavailable
C9_Witness ==
    /\ Feasible
    /\ \E e \in employee_set : \E d \in days : \E t \in T :
        /\ is_unavailable(e, d, t)
        /\ WorkedSlots(e, d) # {}

\* C10: at most one employee is on the front desk in any slot, including
\* employees put on the front desk by a timeset.
C10_FrontDeskExclusive ==
    Feasible =>
        \A d \in days : \A t \in T :
            Cardinality({e \in employee_set : FRONT_DESK_ROLE \in assign[e][d][t]}) <= 1

\* a forced front desk block of an unqualified employee beside a qualified
\* colleague's front desk shift on the same day
C10_Witness ==
    /\ Feasible
    /\ \E e \in employee_set : \E d \in days :
        /\ FRONT_DESK_ROLE \notin qual[e]
        /\ AssignedSlots(e, d, FRONT_DESK_ROLE) # {}
        /\ \E e2 \in employee_set \ {e} : AssignedSlots(e2, d, FRONT_DESK_ROLE) # {}

\* the shift length bounds in force for employee e
min_len(e) == IF is_favored(e) THEN FAVORED_MIN_SLOTS ELSE MIN_SLOTS_LOCAL
max_len(e) == IF is_favored(e) THEN FAVORED_MAX_SLOTS ELSE MAX_SLOTS_LOCAL

C7_AsStated ==
    Feasible =>
        \A e \in employee_set :
            /\ 4 * WeekTotal(e) <= Min(weekly_hour_limits[e], 8 * UNIVERSAL_MAXIMUM_HOURS)
            /\ 4 * WeekTotal(e) <= Min(Min(target_weekly_hours[e] + 4 * delta_slots,
                                           weekly_hour_limits[e]),
                                       8 * UNIVERSAL_MAXIMUM_HOURS)
            /\ WeekTotal(e) >= feasible_lower(e)

\* the effective units of department r in the returned schedule
DepartmentUnits(r) ==
    2 * SumOver(employee_set, [e \in employee_set |->
            SumOver(days, [d \in days |-> Cardinality(AssignedSlots(e, d, r))])])
    + SumOver({e \in employee_set : primary_department_for_employee(e) = r},
              [e \in employee_set |->
                  SumOver(days, [d \in days |->
                      Cardinality(AssignedSlots(e, d, FRONT_DESK_ROLE))])])

\* C8 as stated: the effective units of a department (2 per slot in the
\* department, 1 per front desk slot of an employee whose primary department
\* it is) never exceed 4*max_r.  Hours are eighths of an hour, so a bound of
\* h hours on u quarter-hour units reads 2*u <= h.
C8_AsStated ==
    Feasible =>
        \A r \in department_roles : 2 * DepartmentUnits(r) <= department_max_hours[r]

\* a timeset puts somebody on the front desk on day d
DayHasForcedFrontDesk(d) ==
    \E e \in employee_set : ForcedRoleSlots(e, d, FRONT_DESK_ROLE) # {}

\* C11: on every day on which no employee has a front desk timeset, each
\* employee's front desk slots number 0 or at least 4 and form one contiguous
\* block; on a day with a front desk timeset of any employee the prohibition
\* of 1, 2 and 3 slots is lifted for every employee.
C11_FrontDeskMinimum ==
    Feasible =>
        \A d \in days : ~DayHasForcedFrontDesk(d) =>
            \A e \in employee_set :
                /\ Cardinality(AssignedSlots(e, d, FRONT_DESK_ROLE)) \notin {1, 2, 3}
                /\ Contiguous(AssignedSlots(e, d, FRONT_DESK_ROLE))

\* a front desk block of at least 4 slots on a day without front desk
\* timeset, and on a day with one a short front desk block of an employee
\* who has no front desk timeset that day
C11_Witness ==
    /\ Feasible
    /\ \E d \in days : \E e \in employee_set :
        /\ ~DayHasForcedFrontDesk(d)
        /\ Cardinality(AssignedSlots(e, d, FRONT_DESK_ROLE)) >= 4
    /\ \E d \in days : \E e \in employee_set :
        /\ DayHasForcedFrontDesk(d)
        /\ ForcedRoleSlots(e, d, FRONT_DESK_ROLE) = {}
        /\ Cardinality(AssignedSlots(e, d, FRONT_DESK_ROLE)) \in {1, 2, 3}

\* the department roles that employee e holds for exactly n slots on day d
RolesWithSlots(e, d, n) ==
    {r \in department_roles : Cardinality(AssignedSlots(e, d, r)) = n}

\* C12: with the block toggle on, no employee-day with a shift of exactly 4
\* slots has two different department roles with exactly 2 slots each, for
\* favoured and non-favoured employees alike.
C12_NoOneHourSplit ==
    (Feasible /\ enforce_min_dept_block) =>
        \A e \in employee_set : \A d \in days :
            Cardinality(WorkedSlots(e, d)) = 4 =>
                Cardinality(RolesWithSlots(e, d, 2)) <= 1

\* with the toggle on, a favoured employee qualified for two departments
\* works a 4-slot day, all of it in one department
C12_Witness ==
    /\ Feasible
    /\ enforce_min_dept_block
    /\ \E e \in employee_set : \E d \in days :
        /\ is_favored(e)
        /\ Cardinality(qual[e] \cap department_roles) >= 2
        /\ Cardinality(WorkedSlots(e, d)) = 4
        /\ RolesWithSlots(e, d, 4) # {}

\* the day plan with n1 slots of role r1 followed by n2 slots of role r2
BlockPlan(r1, n1, r2, n2) ==
    [t \in T |-> IF t < n1 THEN [w |-> 1, a |-> {r1}]
                 ELSE IF t < n1 + n2 THEN [w |-> 1, a |-> {r2}]
                 ELSE [w |-> 0, a |-> {}]]

\* plan p satisfies every hard constraint on the slots and blocks of (e, d)
PlanAllowed(e, d, p) ==
    /\ \A t \in T : cell_ok(e, d, t, p[t])
    /\ day_ok(e, d, p)

\* the models have been built: forced_assignments holds the timesets
Built == pc \in {"solve", "validate_solution", "report", "done"}

\* the largest department block that leaves room for a 2-slot block in the
\* scaled day (6 slots with 2 more in the 18-slot day of the program)
LongBlock == NumSlots - 2

\* C13: with the block toggle off, for a non-favoured employee a day of a
\* long block in one department plus 2 slots in another, and a 4-slot day
\* split 2+2 across two departments, both satisfy the hard constraints on
\* the day's blocks.
C13_ToggleOffAllowsSplits ==
    (Built /\ ~enforce_min_dept_block) =>
        \A e \in employee_set : \A d \in days :
            (~is_favored(e) /\ ForcedSlots(e, d) = {} /\ unavailable[e][d] = {}) =>
                \A r1 \in qual[e] \cap department_roles :
                    \A r2 \in (qual[e] \cap department_roles) \ {r1} :
                        /\ PlanAllowed(e, d, BlockPlan(r1, LongBlock, r2, 2))
                        /\ PlanAllowed(e, d, BlockPlan(r1, 2, r2, 2))

\* with the toggle off the solver returns a schedule in which a non-favoured
\* employee has a 2+2 day and a day of a long block plus 2 slots
C13_Witness ==
    /\ Feasible
    /\ ~enforce_min_dept_block
    /\ \E e \in employee_set : \E d1 \in days : \E d2 \in days :
        /\ ~is_favored(e)
        /\ Cardinality(WorkedSlots(e, d1)) = 4
        /\ Cardinality(RolesWithSlots(e, d1, 2)) = 2
        /\ Cardinality(WorkedSlots(e, d2)) = LongBlock + 2
        /\ RolesWithSlots(e, d2, LongBlock) # {}
        /\ RolesWithSlots(e, d2, 2) # {}

CumulativeTimesetSlots(e) ==
    SumOver({i \in 1..Len(timeset_requests) : timeset_requests[i].employee = e},
            [i \in 1..Len(timeset_requests) |->
                Cardinality(timeset_slots(timeset_requests[i]))])

\* C15 as stated: whenever the timesets of one employee together request more
\* than 2*max_e slots, the input is rejected before any model is solved.
\* Hours are eighths of an hour, so s slots exceed max_e when 4*s > max_e.
C15_AsStated ==
    (\E e \in employee_set : 4 * CumulativeTimesetSlots(e) > weekly_hour_limits[e])
        => pc \in {"validate", "raised"}

\* the departments of the requirements file for which no employee is qualified
UnstaffedDepartments ==
    {r \in DOMAIN department_max_hours : ~\E e \in employee_set : r \in qual[e]}

\* C16 as stated: when the department requirements list a department for
\* which no employee is qualified, the input is rejected instead of a model
\* being built.
C16_AsStated ==
    UnstaffedDepartments # {} => pc \in {"validate", "raised"}

\* ---------------------------------------------------------------------------
\* the errors the validator would list for the assignment of the current state
ValidatorFindings == duplicate_errors \cup gap_errors

\* an employee-day whose worked slots are split by a gap
GapDay(e, d) == NumIntervals(WorkedSlots(e, d)) > 1

\* C20: for every assignment that satisfies the hard constraints the validator
\* lists no DUPLICATE error and no GAP error (a gap on an employee-day of the
\* timeset-gap set is not an error), and the validator's step leaves the
\* returned status as the solver set it.
C20_ValidatorClean ==
    /\ [](Feasible => ValidatorFindings = {} /\ validation_errors = {})
    /\ [][pc = "validate_solution" => status' = status /\ work' = work /\ assign' = assign]_vars

\* the validator has run on a schedule in which an employee holds a role on
\* a day with a timeset gap, next to a day of another employee without one
C20_Witness ==
    /\ pc = "done"
    /\ Feasible
    /\ validation_errors = {}
    /\ \E e \in employee_set : \E d \in days : GapDay(e, d)
    /\ \E e \in employee_set : \E d \in days :
            Cardinality(WorkedSlots(e, d)) >= 2 /\ ~GapDay(e, d)

\* ---------------------------------------------------------------------------
\* the relaxation has been applied to the arguments in call
Relaxed == pc = "relaxed_lower" /\ ret # <<>>

\* the smallest whole number of slots that is at least half of fl
Halved(fl) == CHOOSE h \in 0..fl : 2 * h >= fl /\ 2 * (h - 1) < fl

\* section 4.3a as written: the lower bound for unrelaxed bound fl, F forced
\* department slots, q front-desk-qualified employees
Section43a(fl, F, is_fd_qualified, q) ==
    IF F >= 30 THEN 0
    ELSE IF F < 4 THEN fl
    ELSE IF is_fd_qualified
         THEN IF F >= 20 THEN Max(0, fl - (fl - 2)) ELSE Max(0, fl - Min(fl, F \div q))
         ELSE IF F >= 20 THEN Halved(fl) ELSE fl - Min(fl, F \div 10)

\* section 4.3a with the heavy-load rule of a front-desk-qualified employee
\* read as "keep at most 2 slots of the bound"
Section43aKeepTwo(fl, F, is_fd_qualified, q) ==
    IF is_fd_qualified /\ F >= 20 /\ F < 30 THEN Min(fl, 2)
    ELSE Section43a(fl, F, is_fd_qualified, q)

\* C17 as stated: for every unrelaxed lower bound fl >= 0 and every number F of
\* forced department slots the enforced lower bound equals the section 4.3a
\* rule, max(0, fl - (fl - 2)) included.
C17_AsStated ==
    Relaxed => ret[1] = Section43a(call[1], call[3], call[4], call[5])

\* C17: the enforced lower bound equals the section 4.3a rule, except that a
\* front-desk-qualified employee under 20 <= F < 30 gets min(fl, 2): a bound
\* of 0 or 1 slot is left as it is, never raised to 2.
C17_RelaxedLower ==
    Relaxed => ret[1] = Section43aKeepTwo(call[1], call[3], call[4], call[5])

\* the relaxation was applied to a one-slot bound of a front-desk-qualified
\* employee under a heavy timeset load, and left it at one slot
C17_Witness ==
    /\ Relaxed
    /\ call[1] = 1 /\ call[4] /\ call[3] >= 20 /\ call[3] < 30
    /\ ret = <<1>>

\* ---------------------------------------------------------------------------
\* the goal of a training pair has been derived from the targets in call
GoalDerived == pc = "goal_slots" /\ ret # <<>>

\* m = 2 * min(target_e1, target_e2), in eighths of a slot
SmallerTargetEighths == 2 * Min(call[1], call[2])

\* floor(TRAINING_TARGET_FRACTION * m)
FloorOfFraction ==
    (TRAINING_TARGET_FRACTION[1] * SmallerTargetEighths)
        \div (TRAINING_TARGET_FRACTION[2] * 8)

\* C18 as stated: goal_slots = clamp(floor(TRAINING_TARGET_FRACTION * m),
\* TRAINING_MIN_SLOTS, m) with m = 2 * min(target_e1, target_e2), for every
\* pair of targets (compared in eighths of a slot).
C18_AsStated ==
    GoalDerived =>
        8 * ret[1] = Min(8 * Max(FloorOfFraction, TRAINING_MIN_SLOTS), SmallerTargetEighths)

\* m rounded to a whole number of slots, halves to the even neighbour
RoundedSmallerTarget == PyRound(SmallerTargetEighths, 8)

\* C18: goal_slots = clamp(round(TRAINING_TARGET_FRACTION * m),
\* TRAINING_MIN_SLOTS, m) where m = round(2 * min(target_e1, target_e2)) and
\* round takes the nearest integer, halves to the even one; a pair with m = 0
\* has goal 0, and targets 10 and 10 give 7.
C18_GoalSlots ==
    GoalDerived =>
        /\ ret[1] = Min(Max(PyRound(TRAINING_TARGET_FRACTION[1] * RoundedSmallerTarget,
                                     TRAINING_TARGET_FRACTION[2]),
                             TRAINING_MIN_SLOTS),
                         RoundedSmallerTarget)
        /\ (RoundedSmallerTarget = 0 => ret[1] = 0)
        /\ (call = <<80, 80>> => ret[1] = 7)

\* the goal of a pair with targets of 5 hours each was derived: 35% of 10 slots
\* is 3.5, and the goal is 4
C18_Witness ==
    /\ GoalDerived
    /\ call = <<40, 40>>
    /\ ret = <<4>>

\* ---------------------------------------------------------------------------
\* the table of primary departments has been computed
PrimaryChosen == pc = "primary_department" /\ ret # <<>>

\* the departments employee e is qualified for
QualifiedDepartments(e) == qual[e] \ {FRONT_DESK_ROLE}

\* the number of employees qualified for department r
QualifiedCount(r) == Cardinality({e \in employee_set : r \in qual[e]})

\* r is the scarcest department of e, the lexicographically first on a tie
ScarcestFirst(e, r) ==
    /\ r \in QualifiedDepartments(e)
    /\ \A x \in QualifiedDepartments(e) :
            \/ QualifiedCount(r) < QualifiedCount(x)
            \/ QualifiedCount(r) = QualifiedCount(x) /\ DeptRank[r] <= DeptRank[x]

\* C19: for every order of the employees and every order of the departments,
\* primary_department_for_employee[e] is the qualified department with the
\* fewest qualified employees, the lexicographically first on a tie, and None
\* for an employee qualified only for front desk; so it depends on the staff
\* table alone.
C19_PrimaryDepartment ==
    PrimaryChosen =>
        \A e \in employee_set :
            /\ QualifiedDepartments(e) = {} => ret[1][e] = None
            /\ QualifiedDepartments(e) # {} => ScarcestFirst(e, ret[1][e])
            /\ ret[1][e] = primary_department_for_employee(e)

\* the table was computed from a departments file that lists marketing before
\* events, for an employee tied between the two and a front-desk-only employee
C19_Witness ==
    /\ PrimaryChosen
    /\ employees = <<"bob", "ann">>
    /\ call[1] = <<"outreach", "marketing", "events">>
    /\ qual["ann"] = {"events", "marketing"}
    /\ qual["bob"] = {FD}
    /\ ret[1]["ann"] = "events"
    /\ ret[1]["bob"] = None

\* ---------------------------------------------------------------------------
\* the solver has been invoked and returned a status without a schedule
NoSchedule == status \in {"INFEASIBLE", "UNKNOWN"}

\* C21: a validation failure is raised before the solver is invoked and before
\* any export (and no input with a validation failure ever reaches the
\* solver); a status that is neither OPTIMAL nor FEASIBLE is returned, not
\* raised, after the diagnostics were printed and without an export; an export
\* exists only for an OPTIMAL or FEASIBLE status.
C21_FailFastInfeasibleIsValue ==
    /\ pc = "raised" =>
          /\ input_error
          /\ status = None /\ work = zero_work /\ assign = zero_assign
          /\ ~exported /\ diagnostics = {}
    /\ Built => ~input_error
    /\ NoSchedule =>
          /\ pc \in {"report", "done"}
          /\ ~exported
          /\ pc = "done" => <<"SCHEDULE COULD NOT BE GENERATED">> \in diagnostics
    /\ exported => status = "FEASIBLE" /\ pc = "done"

\* solve_schedule has returned INFEASIBLE for a request with a timeset: the
\* diagnostics are printed and nothing is exported
C21_Witness ==
    /\ pc = "done"
    /\ status = "INFEASIBLE"
    /\ <<"TIMESETS ACTIVE">> \in diagnostics
    /\ ~exported

\* ---------------------------------------------------------------------------
\* solve_schedule has returned without a schedule
ReturnedNoSchedule == pc = "done" /\ NoSchedule

\* the training requests without any slot of overlap capacity
ZeroCapacityPairs ==
    {i \in 1..Len(training_requests) : available_overlap_slots(training_requests[i]) = 0}

\* C22 as stated: when no schedule is returned, the diagnostics report every
\* training pair with zero overlap capacity, by its own conflict entry or by
\* the general training entry, also when another pair has positive capacity.
C22_AsStated ==
    ReturnedNoSchedule =>
        \A i \in ZeroCapacityPairs :
            \/ <<"TRAINING PAIR CONFLICT", i>> \in diagnostics
            \/ <<"TRAINING PAIR ISSUE">> \in diagnostics

\* ---------------------------------------------------------------------------
\* C23 as stated: whenever the time budget ends the search without a schedule
\* (status UNKNOWN), the outcome is reported like infeasibility and the
\* diagnostics contain the hint to increase the solver time limit, whatever
\* other issues were detected.
C23_AsStated ==
    pc = "done" /\ status = "UNKNOWN" =>
        /\ <<"SCHEDULE COULD NOT BE GENERATED">> \in diagnostics
        /\ ~exported
        /\ <<"Increase solver time limit">> \in diagnostics

\* ---------------------------------------------------------------------------
\* the main thread is past the join
PastJoin == pc \in {"report", "done"} /\ stop_event

\* the progress task exists and has not ended
TaskRunning == progress_thread \notin {None, "ended"}

\* C24 as stated: the task prints at most one more progress line once the flag
\* is set, and the main thread is never past the join while the task is still
\* running.
C24_AsStated ==
    /\ prints_after_stop <= 1
    /\ PastJoin => ~TaskRunning

\* C24: once the flag is set the task prints at most one more progress line
\* before it leaves the loop; the main thread is past the join only when there
\* is no task, the task has ended, or the one-second timeout of the join has
\* elapsed (the task may then still be running when solve_schedule returns);
\* and no step of the task changes the model, the solver's result or the
\* flag.
C24_ProgressTask ==
    /\ [](prints_after_stop <= 1)
    /\ [](PastJoin /\ TaskRunning => join_timed_out)
    /\ [](join_timed_out => PastJoin)
    /\ [][progress_thread' # progress_thread /\ pc # "start_progress" =>
            UNCHANGED <<inputs, forced_assignments, status, work, assign, validation_errors,
                        report, stop_event, pc>>]_vars

\* solve_schedule has returned after a join that found the task ended, and
\* the task had printed one more line after the flag was set
C24_Witness ==
    /\ pc = "done"
    /\ progress_thread = "ended"
    /\ ~join_timed_out
    /\ prints_after_stop = 1



\* Scenario S1: one front-desk-only employee with a target of 10 hours, a
\* limit of 12 hours and full availability, solved to optimality
SoleEmployeeS1 ==
    /\ pc = "maximize"
    /\ ret # <<>>
    /\ employees = <<"ann">>
    /\ target_weekly_hours["ann"] = 10 * 8
    /\ weekly_hour_limits["ann"] = 12 * 8

\* C25 as stated: in scenario S1 the objective-maximizing schedule assigns
\* exactly 10 hours (20 slots) of front desk.
C25_AsStated == SoleEmployeeS1 => total_slots(ret[1]) = 20

\* C25: in scenario S1 every objective-maximizing schedule assigns the
\* employee's weekly maximum, 12 hours (24 slots) of front desk: a covered
\* front desk slot outweighs the penalties for exceeding the target.
C25_SoleEmployeeOptimum ==
    SoleEmployeeS1 =>
        /\ total_slots(ret[1]) = max_weekly_slots("ann")
        /\ total_slots(ret[1]) = 2 * 12

C25_Witness == SoleEmployeeS1 /\ total_slots(ret[1]) = 24 /\ call[1] = 2


\* both row orders of a staff file have been read and modelled
BothOrdersBuilt == pc = "solve" /\ call # <<>> /\ ret # <<>>

C27_AsStated ==
    pc = "favored_hours_bonus" /\ ret # <<>> =>
        10 * ret[1] = 200 * call[1] * call[2]


\* the contiguity constraints of the forced days with a gap have been posted
SplitPosted == pc = "solve" /\ ret # <<>> /\ DOMAIN ret[1] # {}

\* the roles the two timesets of ann's Monday force
SplitRoles == {timeset_requests[i].department : i \in 1..Len(timeset_requests)}

\* C28 as stated: whenever validated timesets force two non-adjacent blocks
\* on one employee-day, the shift contiguity, front desk contiguity and
\* per-role contiguity constraints together admit the day consisting of
\* exactly those two blocks, for different roles and for the same role
\* (front desk or a department, qualified or not).
C28_AsStated == SplitPosted => \A ed \in DOMAIN ret[1] : ret[1][ed]

\* the two blocks are of one department ann is not qualified for
SplitUnqualifiedDepartment ==
    Cardinality(SplitRoles) = 1 /\ SplitRoles \cap (qual["ann"] \cup {FD}) = {}

\* the day of two such blocks is admitted
SplitUnqualifiedAdmitted ==
    SplitPosted /\ SplitUnqualifiedDepartment /\ (\A ed \in DOMAIN ret[1] : ret[1][ed])


\* the relaxed bound of the call's employee when one more department slot is
\* forced (fl, the employee and q unchanged)
RelaxedWithOneMoreForced == relaxed_lower(call[1], TRUE, call[3] + 1, call[4], call[5])

\* C29 as stated: the relaxed lower bound is between 0 and the unrelaxed
\* value, and it never increases when the number F of forced non-front-desk
\* slots increases.
C29_AsStated ==
    Relaxed =>
        /\ 0 <= ret[1] /\ ret[1] <= call[1]
        /\ RelaxedWithOneMoreForced <= ret[1]

\* C29: the relaxed lower bound is between 0 and the unrelaxed value, and it
\* never increases when F increases without reaching 20 from below; at the
\* step from 19 to 20 forced slots the bound can rise again.
C29_RelaxesWithinBands ==
    Relaxed =>
        /\ 0 <= ret[1] /\ ret[1] <= call[1]
        /\ call[3] + 1 # 20 => RelaxedWithOneMoreForced <= ret[1]

C29_Witness ==
    /\ Relaxed
    /\ call = <<3, TRUE, 19, TRUE, 1>>
    /\ ret[1] = 0
    /\ RelaxedWithOneMoreForced = 2


\* the employees at the front desk in slot (d, t) of the returned schedule
FrontDeskStaff(d, t) == {e \in employee_set : FRONT_DESK_ROLE \in assign[e][d][t]}

\* employee e can take the front desk in slot (d, t): the assignment variable
\* exists and the employee is available
CanTakeFrontDesk(e, d, t) ==
    assign_exists(e, d, t, FRONT_DESK_ROLE) /\ t \notin unavailable[e][d]

\* C30: in every feasible solution nobody works in a slot without front desk
\* coverage: if any employee works in (d, t) then exactly one employee is
\* assigned the front desk there, and in a slot where no employee can take
\* the front desk every employee's work variable is 0.
C30_NoWorkWithoutFrontDesk ==
    Feasible =>
        \A d \in days : \A t \in T :
            /\ (\E e \in employee_set : work[e][d][t] = 1)
                  => Cardinality(FrontDeskStaff(d, t)) = 1
            /\ (\A e \in employee_set : ~CanTakeFrontDesk(e, d, t))
                  => \A e \in employee_set : work[e][d][t] = 0

C30_Witness ==
    /\ Feasible
    /\ \E d \in days : \E t \in T :
          /\ work["ann"][d][t] = 1 /\ "events" \in assign["ann"][d][t]
          /\ FrontDeskStaff(d, t) = {"bob"}
    /\ \E d \in days :
          /\ \A e \in employee_set : ~CanTakeFrontDesk(e, d, 0)
          /\ \E t \in T : work["ann"][d][t] = 1

====
